---- MODULE Spec2Model ----
(***************************************************************************)
(* Model of the flight scraping pipeline of flight_mcp_server:             *)
(* scrapper.scrape_flights (validation, browser session, navigation        *)
(* retries, pagination, extraction, report assembly, top-level handler),   *)
(* with the input checks of utils.generate_search_url and                  *)
(* models.FlightFilters.to_url_string that run before the session opens.   *)
(*                                                                         *)
(* One behaviour is one invocation of scrape_flights.  The page and the    *)
(* file system are the environment: every browser call and every file     *)
(* write either succeeds or raises, and every query of the page returns    *)
(* what the page shows at that moment.                                     *)
(***************************************************************************)
EXTENDS Integers, Sequences, FiniteSets, TLC

(***************************************************************************)
(* Bounds of the model.                                                    *)
(***************************************************************************)
\* largest number of result cards a query of the page returns
MaxCards == 2
\* largest start_index / end_index drawn as input
MaxIndex == 1
\* cap on the number of "show more" clicks explored in one invocation
MaxClicks == 3

(***************************************************************************)
(* Program constants.                                                      *)
(***************************************************************************)
\* scrapper.py: max_attempts = 3
max_attempts == 3

(***************************************************************************)
(* Text as the code sees it: a string is a sequence of characters.         *)
(***************************************************************************)
Upper == {"A","B","C","D","E","F","G","H","I","J","K","L","M",
          "N","O","P","Q","R","S","T","U","V","W","X","Y","Z"}
Digit == {"0","1","2","3","4","5","6","7","8","9"}

\* Python's "$" matches at the end of the string and also just before a
\* final newline: n pattern characters are followed by nothing or by "\n".
EndsAt(s, n) ==
    \/ Len(s) = n
    \/ Len(s) = n + 1 /\ s[n + 1] = "\n"

\* re.match(r"^[A-Z]{3}$", s)
MatchAirport(s) ==
    /\ EndsAt(s, 3)
    /\ \A i \in 1..3 : s[i] \in Upper

\* re.match(r"^\d{4}-\d{2}-\d{2}$", s)
MatchDate(s) ==
    /\ EndsAt(s, 10)
    /\ \A i \in {1, 2, 3, 4, 6, 7, 9, 10} : s[i] \in Digit
    /\ s[5] = "-"
    /\ s[8] = "-"

\* re.match(r"^[A-Z0-9]{2}$", code)
MatchAirline(s) ==
    /\ EndsAt(s, 2)
    /\ \A i \in 1..2 : s[i] \in Upper \cup Digit

(***************************************************************************)
(* Optional values: <<>> is None, <<v>> is the value v.                    *)
(***************************************************************************)
None == <<>>
Some(v) == <<v>>
IsSome(o) == Len(o) = 1
Get(o) == o[1]

(***************************************************************************)
(* FlightFilters.to_url_string raises ValueError on an invalid field.      *)
(***************************************************************************)
FiltersRaise(f) ==
    \/ IsSome(f.carry_on_free) /\ Get(f.carry_on_free) < 0
    \/ IsSome(f.checked_bags_free) /\ Get(f.checked_bags_free) < 0
    \/ IsSome(f.stops) /\ Get(f.stops) < 0
    \/ IsSome(f.max_price) /\ Get(f.max_price) <= 0
    \/ f.include_airlines # {} /\ \E c \in f.include_airlines : ~MatchAirline(c)
    \/ f.exclude_airlines # {} /\ \E c \in f.exclude_airlines : ~MatchAirline(c)

(***************************************************************************)
(* generate_search_url raises ValueError: the airports, then the dates,    *)
(* then (building the query) the filters.  A return date of None or ""     *)
(* is not checked, and absent filters are not rendered.                    *)
(***************************************************************************)
BuilderRejects(r) ==
    \/ ~MatchAirport(r.departure_airport)
    \/ ~MatchAirport(r.arrival_airport)
    \/ ~MatchDate(r.departure_date)
    \/ IsSome(r.return_date) /\ Get(r.return_date) # <<>>
          /\ ~MatchDate(Get(r.return_date))
    \/ IsSome(r.filters) /\ FiltersRaise(Get(r.filters))

(***************************************************************************)
(* scrape_flights, lines 43-49: the index checks, in the code's order.     *)
(* "" means that no check raises.                                          *)
(***************************************************************************)
IndexErrorNoOrder(s, e) ==
    IF s < 0 THEN "start_index cannot be negative" ELSE ""

IndexError(s, e) ==
    IF s < 0 THEN "start_index cannot be negative"
    ELSE IF e < s THEN "end_index must be greater than or equal to start_index"
    ELSE ""

(***************************************************************************)
(* The requests drawn as input.  Passengers are a constructed              *)
(* FlightPassengers object (its checks ran in __post_init__, before the    *)
(* call); plane_type and sort_option are enum members.                     *)
(***************************************************************************)
YYZ == <<"Y","Y","Z">>
HKG == <<"H","K","G">>
Date0701 == <<"2","0","2","5","-","0","7","-","0","1">>
Date0725 == <<"2","0","2","5","-","0","7","-","2","5">>
AC == <<"A","C">>
UA == <<"U","A">>

NoFilters ==
    [carry_on_free |-> None, checked_bags_free |-> None, stops |-> None,
     max_price |-> None, alliance |-> None, include_airlines |-> {},
     exclude_airlines |-> {}, wifi_only |-> FALSE]

\* the example of scrapper.py's __main__ block
ReqRoundTrip ==
    [departure_airport |-> YYZ, arrival_airport |-> HKG,
     departure_date |-> Date0701, return_date |-> Some(Date0725),
     passengers |-> [adults |-> 2, students |-> 0, children |-> <<>>],
     plane_type |-> "economy", sort_option |-> "price_a",
     filters |-> Some([NoFilters EXCEPT !.carry_on_free = Some(1),
                                        !.max_price = Some(6000)])]
ReqOneWay ==
    [ReqRoundTrip EXCEPT !.return_date = None, !.filters = None]
ValidRequests == {ReqRoundTrip, ReqOneWay}

\* requests with a malformed airport code or date, or an invalid filter value
MalformedRequests ==
    { [ReqRoundTrip EXCEPT !.departure_airport = <<"y","y","z">>],
      [ReqRoundTrip EXCEPT !.arrival_airport = <<"H","K">>],
      [ReqOneWay EXCEPT !.departure_date =
          <<"2","0","2","5","/","0","7","/","0","1">>],
      [ReqRoundTrip EXCEPT !.return_date = Some(<<"J","u","l","y">>)],
      [ReqRoundTrip EXCEPT !.filters =
          Some([NoFilters EXCEPT !.max_price = Some(0)])],
      [ReqRoundTrip EXCEPT !.filters =
          Some([NoFilters EXCEPT !.stops = Some(-1)])],
      [ReqRoundTrip EXCEPT !.filters =
          Some([NoFilters EXCEPT !.include_airlines = {AC, UA},
                                 !.exclude_airlines = {<<"a","c">>}])] }

Requests == ValidRequests \cup MalformedRequests

(***************************************************************************)
(* The page's result cards.  A card has or lacks the leg list              *)
(* (".hJSA-list") and has or lacks an ad badge.                            *)
(***************************************************************************)
Cards == [legList : BOOLEAN, adBadge : BOOLEAN]
Pages == UNION {[1..n -> Cards] : n \in 0..MaxCards}

(***************************************************************************)
(* Exception texts, one per kind of fault.                                 *)
(***************************************************************************)
ExcTimeout == "Timeout 60000ms exceeded"
ExcTarget == "Target page, context or browser has been closed"
ExcOS == "Read-only file system"
ExcIndex == "list index out of range"
ExcLaunch == "Executable doesn't exist"

(***************************************************************************)
(* Reports.  A message is None, or a text with the detail it carries.      *)
(***************************************************************************)
NoReport ==
    [status |-> "none", has_flights |-> FALSE, flights |-> <<>>,
     total_results |-> 0, message |-> None]

ErrorResponse(msg) ==
    [status |-> "no_flights_found", has_flights |-> FALSE, flights |-> <<>>,
     total_results |-> 0, message |-> msg]

MsgFailedToLoad == <<"Failed to load Kayak page after multiple attempts">>
MsgNoResults == <<"No flights available for the specified parameters">>
MsgNoItems == <<"No flight results found for the specified parameters">>
MsgNoContainer(e) == <<"Flight results container not found: ", e>>
MsgError(e) == <<"Error occurred: ", e>>
MsgAdvisory(e, total) == <<"Requested up to index, but only available", e, total>>

(***************************************************************************)
(* State of one invocation of scrape_flights.                              *)
(***************************************************************************)
VARIABLES
    req,               \* the search request (airports, dates, filters)
    start_index,       \* requested window, inclusive
    end_index,
    pc,                \* position in scrape_flights
    branch,            \* which exit the invocation is taking
    exc,               \* text of the exception being handled
    playwright,        \* the "with sync_playwright()" scope
    browser,           \* the browser session
    attempts,          \* navigation retry counter
    current_results,   \* pagination: card count last read
    show_more_button,  \* pagination: whether the control was found
    result_items,      \* cards returned by the final query
    idx,               \* extraction loop index (0-based)
    flight_data,       \* extracted flights; src is the card's page index
    total_results,
    response,          \* the response dict being written
    report,            \* the value returned to the caller
    outcome,           \* "running", "returned" or "raised"
    raised,            \* text of the exception that left the call
    navGotos,          \* history: page.goto calls made
    navOk,             \* history: a navigation attempt succeeded
    snapshots,         \* history: per-attempt snapshots captured
    clicks,            \* history: "show more" clicks triggered
    staleClicks,       \* history: clicks after which the count did not grow
    queried,           \* history: the page was asked for results
    waited,            \* history: wait_for_selector on result cards ran
    extracted,         \* history: cards visited by the extraction loop
    anomaly,           \* history: a built card had a missing or malformed field
    noResultsSeen,     \* history: the "no results" indicator was found
    validations,       \* history: runs of the input checks
    call,              \* a function of the package called on its own: name, argument
    rets,              \* what the successive calls of it returned or raised
    chat,              \* GeminiChatClient.process_query: one user query
    pool               \* two invocations on the executor's worker threads

\* what an invocation of scrape_flights leaves as it is
apart == <<chat, pool>>
inputs == <<req, start_index, end_index, call, rets, apart>>
ctrl == <<pc, branch, exc>>
session == <<playwright, browser>>
paging == <<current_results, show_more_button>>
extraction == <<result_items, idx, flight_data, total_results>>
output == <<response, report, outcome, raised>>
navHist == <<navGotos, navOk, snapshots>>
pageHist == <<clicks, staleClicks>>
seenHist == <<queried, waited, extracted, anomaly, noResultsSeen,
              validations>>
vars == <<inputs, ctrl, session, attempts, paging, extraction, output,
          navHist, pageHist, seenHist>>

target_results == end_index + 1

\* no function is called on its own during an invocation of scrape_flights
NoCall == [fn |-> "none"]

\* no user query is being processed, no pair of invocations is running
NoChat ==
    [pc |-> "idle", max_tool_iterations |-> 0, attempt |-> 0, iteration |-> 0,
     response |-> "none", tool_calls |-> 0, result |-> "none"]
NoPool == [pc |-> <<>>, wrote |-> <<{}, {}>>, files |-> <<>>]

\* the state in which an invocation of scrape_flights starts
Fresh ==
    /\ pc = "validate"
    /\ branch = "none"
    /\ exc = ""
    /\ playwright = "none"
    /\ browser = "none"
    /\ attempts = 0
    /\ current_results = 0
    /\ show_more_button = FALSE
    /\ result_items = <<>>
    /\ idx = 0
    /\ flight_data = <<>>
    /\ total_results = 0
    /\ response = NoReport
    /\ report = NoReport
    /\ outcome = "running"
    /\ raised = ""
    /\ navGotos = 0
    /\ navOk = FALSE
    /\ snapshots = 0
    /\ clicks = 0
    /\ staleClicks = 0
    /\ queried = FALSE
    /\ waited = FALSE
    /\ extracted = 0
    /\ anomaly = FALSE
    /\ noResultsSeen = FALSE
    /\ validations = 0

Init ==
    /\ call = NoCall
    /\ rets = <<>>
    /\ chat = NoChat
    /\ pool = NoPool
    /\ req \in Requests
    /\ start_index \in -1..MaxIndex
    /\ end_index \in -1..MaxIndex
    /\ Fresh

(***************************************************************************)
(* Leaving the "with sync_playwright()" block, by return or by exception:  *)
(* the scope's exit stops the driver, which closes a browser still open.   *)
(***************************************************************************)
WithExitLeaks(b) == b

WithExit(b) == IF b = "open" THEN "closed" ELSE b

ScopeExit(pw) == IF pw = "started" THEN "stopped" ELSE pw

\* An exception raised inside the try block: it unwinds the with block and
\* reaches "except Exception as e" (line 309).
Raise(e) ==
    /\ pc' = "handler"
    /\ exc' = e
    /\ browser' = WithExit(browser)
    /\ playwright' = ScopeExit(playwright)
    /\ UNCHANGED branch

\* An exception raised in a state where the browser is in state b.
RaiseWith(e, b) ==
    /\ pc' = "handler"
    /\ exc' = e
    /\ browser' = WithExit(b)
    /\ playwright' = ScopeExit(playwright)
    /\ UNCHANGED branch

(***************************************************************************)
(* Lines 43-77: the index checks and generate_search_url, outside the try  *)
(* block: a ValueError leaves the call.                                    *)
(***************************************************************************)
Validate ==
    /\ pc = "validate"
    /\ validations' = validations + 1
    /\ IF IndexError(start_index, end_index) # ""
       THEN /\ pc' = "done"
            /\ outcome' = "raised"
            /\ raised' = IndexError(start_index, end_index)
       ELSE IF BuilderRejects(req)
       THEN /\ pc' = "done"
            /\ outcome' = "raised"
            /\ raised' = "Invalid search request"
       ELSE /\ pc' = "enter"
            /\ UNCHANGED <<outcome, raised>>
    /\ UNCHANGED <<inputs, branch, exc, session, attempts, paging, extraction,
                   response, report, navHist, pageHist,
                   queried, waited, extracted, anomaly, noResultsSeen>>

(***************************************************************************)
(* Line 80: sync_playwright().__enter__ starts the driver.                 *)
(***************************************************************************)
EnterPlaywright ==
    /\ pc = "enter"
    /\ \/ /\ playwright' = "started"
          /\ pc' = "launch"
          /\ UNCHANGED <<branch, exc, browser>>
       \/ Raise(ExcLaunch)
    /\ UNCHANGED <<inputs, attempts, paging, extraction, output,
                   navHist, pageHist, seenHist>>

(***************************************************************************)
(* Lines 82-90: launch the browser, open a context and a page.             *)
(***************************************************************************)
Launch ==
    /\ pc = "launch"
    /\ \/ /\ browser' = "open"
          /\ pc' = "goto"
          /\ UNCHANGED <<branch, exc, playwright>>
       \/ Raise(ExcLaunch)              \* launch itself fails: no browser
       \/ RaiseWith(ExcTarget, "open")  \* new_context or new_page fails
    /\ attempts' = 0
    /\ UNCHANGED <<inputs, paging, extraction, output,
                   navHist, pageHist, seenHist>>

(***************************************************************************)
(* Lines 95-103: one navigation attempt (goto, wait for the DOM, scroll).  *)
(* Success breaks out of the retry loop; any exception enters the          *)
(* attempt's except block.                                                 *)
(***************************************************************************)
Goto ==
    /\ pc = "goto"
    /\ attempts < max_attempts
    /\ navGotos' = navGotos + 1
    /\ \/ /\ pc' = "check"
          /\ navOk' = TRUE
          /\ UNCHANGED exc
       \/ /\ pc' = "nav_snapshot"
          /\ exc' = ExcTimeout
          /\ UNCHANGED navOk
    /\ UNCHANGED <<inputs, branch, session, attempts, paging, extraction,
                   output, snapshots, pageHist, seenHist>>

(***************************************************************************)
(* Lines 104-110: the except block of a failed attempt: screenshot, page   *)
(* source to a file, attempts += 1, sleep(5); leaving the block unbinds    *)
(* its exception.  An exception raised here is not caught by the attempt:  *)
(* it goes to the top-level handler.                                       *)
(***************************************************************************)
NavSnapshot ==
    /\ pc = "nav_snapshot"
    /\ \/ /\ snapshots' = snapshots + 1
          /\ attempts' = attempts + 1
          /\ pc' = IF attempts + 1 < max_attempts THEN "goto" ELSE "nav_final"
          /\ exc' = ""
          /\ UNCHANGED <<branch, session>>
       \/ /\ exc' \in {ExcTarget, ExcOS}
          /\ pc' = "handler"
          /\ browser' = WithExit(browser)
          /\ playwright' = ScopeExit(playwright)
          /\ UNCHANGED <<branch, snapshots, attempts>>
    /\ UNCHANGED <<inputs, paging, extraction, output, navGotos, navOk,
                   pageHist, seenHist>>

(***************************************************************************)
(* Lines 111-113: the retry loop's else clause, reached when the loop      *)
(* condition fails without a break: a last screenshot.                     *)
(***************************************************************************)
NavFinal ==
    /\ pc = "nav_final"
    /\ \/ /\ branch' = "nav_failed"
          /\ pc' = "close"
          /\ UNCHANGED <<exc, session>>
       \/ Raise(ExcTarget)
    /\ UNCHANGED <<inputs, attempts, paging, extraction, output,
                   navHist, pageHist, seenHist>>

(***************************************************************************)
(* Lines 127-129: look for the "no results" indicator.                     *)
(***************************************************************************)
CheckNoResults ==
    /\ pc = "check"
    /\ queried' = TRUE
    /\ \/ /\ noResultsSeen' = TRUE      \* the indicator is present
          /\ branch' = "no_results"
          /\ pc' = "close"
          /\ UNCHANGED <<exc, session>>
       \/ /\ pc' = "wait"               \* no indicator
          /\ UNCHANGED <<branch, exc, session, noResultsSeen>>
       \/ /\ Raise(ExcTarget)           \* the query raises
          /\ UNCHANGED noResultsSeen
       \/ /\ noResultsSeen' = TRUE      \* inner_text() of the indicator raises
          /\ Raise(ExcTarget)
    /\ UNCHANGED <<inputs, attempts, paging, extraction, output,
                   navHist, pageHist, waited, extracted, anomaly, validations>>

(***************************************************************************)
(* Line 170: the pagination loop's condition.                              *)
(***************************************************************************)
LoopContinues(cur, target) == cur < target

(***************************************************************************)
(* Lines 143-168: wait for the first result card.  A timeout is caught     *)
(* here and ends the invocation (after a snapshot); it is not retried.     *)
(***************************************************************************)
WaitResultsRetried ==
    /\ pc = "wait"
    /\ waited' = TRUE
    /\ \/ /\ pc' = IF LoopContinues(0, target_results)
                   THEN "loop_read" ELSE "final_query"
          /\ current_results' = 0
          /\ flight_data' = <<>>
          /\ UNCHANGED <<branch, exc, attempts>>
       \/ /\ exc' = ExcTimeout
          /\ attempts' = attempts + 1
          /\ IF attempts + 1 < max_attempts
             THEN pc' = "goto" /\ UNCHANGED branch
             ELSE pc' = "diag" /\ branch' = "no_container"
          /\ UNCHANGED <<current_results, flight_data>>
    /\ UNCHANGED <<inputs, session, show_more_button,
                   result_items, idx, total_results, output,
                   navHist, pageHist, queried, extracted, anomaly, noResultsSeen,
                   validations>>

WaitResults ==
    /\ pc = "wait"
    /\ waited' = TRUE
    /\ \/ /\ pc' = IF LoopContinues(0, target_results)
                   THEN "loop_read" ELSE "final_query"
          /\ current_results' = 0
          /\ flight_data' = <<>>
          /\ UNCHANGED <<branch, exc>>
       \/ /\ exc' = ExcTimeout
          /\ branch' = "no_container"
          /\ pc' = "diag"
          /\ UNCHANGED <<current_results, flight_data>>
    /\ UNCHANGED <<inputs, session, attempts, show_more_button,
                   result_items, idx, total_results, output,
                   navHist, pageHist, queried, extracted, anomaly, noResultsSeen,
                   validations>>

(***************************************************************************)
(* Lines 149-151 and 203-205: screenshot and page source before an early   *)
(* return.                                                                 *)
(***************************************************************************)
Diag ==
    /\ pc = "diag"
    /\ \/ /\ pc' = "close"
          /\ UNCHANGED <<branch, exc, session>>
       \/ Raise(ExcTarget)
       \/ Raise(ExcOS)
    /\ UNCHANGED <<inputs, attempts, paging, extraction, output,
                   navHist, pageHist, seenHist>>

(***************************************************************************)
(* Line 177: enough results, or no more to load.                           *)
(***************************************************************************)
BreakOnAnd(cur, target, button) == cur >= target /\ ~button

LoopBreaks(cur, target, button) == cur >= target \/ ~button

(***************************************************************************)
(* Line 188: the click brought no new cards.                               *)
(***************************************************************************)
NoNewResultsStrict(new, cur) == new < cur

NoNewResults(new, cur) == new <= cur

(***************************************************************************)
(* Lines 171-178: count the cards, look for the "show more" control, and   *)
(* leave the loop or go on to click.  The page reports n cards.            *)
(***************************************************************************)
LoopRead ==
    /\ pc = "loop_read"
    /\ queried' = TRUE
    /\ \/ \E n \in 0..MaxCards, button \in BOOLEAN :
             /\ current_results' = n
             /\ show_more_button' = button
             /\ pc' = IF LoopBreaks(n, target_results, button)
                      THEN "final_query" ELSE "click"
             /\ UNCHANGED <<branch, exc, session>>
       \/ /\ Raise(ExcTarget)
          /\ UNCHANGED paging
    /\ UNCHANGED <<inputs, attempts, extraction, output,
                   navHist, pageHist, waited, extracted, anomaly, noResultsSeen,
                   validations>>

(***************************************************************************)
(* Lines 181-197: click "show more", wait, count again.  No new card       *)
(* breaks the loop; otherwise the new count is kept and the loop           *)
(* condition (line 170) decides.  An exception of the click or of the      *)
(* recount enters the except block.                                        *)
(***************************************************************************)
Click ==
    /\ pc = "click"
    /\ clicks < MaxClicks
    /\ clicks' = clicks + 1
    /\ \/ \E n \in 0..MaxCards :
             \* history: the page shows no more cards than before the click
             /\ staleClicks' = staleClicks + (IF n > current_results THEN 0 ELSE 1)
             /\ IF NoNewResults(n, current_results)
                THEN /\ pc' = "final_query"
                     /\ UNCHANGED <<current_results, exc>>
                ELSE /\ current_results' = n
                     /\ pc' = IF LoopContinues(n, target_results)
                              THEN "loop_read" ELSE "final_query"
                     /\ UNCHANGED exc
       \/ /\ pc' = "click_snapshot"
          /\ exc' = ExcTimeout
          /\ UNCHANGED <<current_results, staleClicks>>
    /\ UNCHANGED <<inputs, branch, session, attempts, show_more_button,
                   extraction, output, navHist, seenHist>>

(***************************************************************************)
(* Lines 192-197: the click's except block: screenshot, page source,       *)
(* break.                                                                  *)
(***************************************************************************)
ClickSnapshot ==
    /\ pc = "click_snapshot"
    /\ \/ /\ pc' = "final_query"
          /\ exc' = ""
          /\ UNCHANGED <<branch, session>>
       \/ Raise(ExcTarget)
       \/ Raise(ExcOS)
    /\ UNCHANGED <<inputs, attempts, paging, extraction, output,
                   navHist, pageHist, seenHist>>

(***************************************************************************)
(* Lines 200-219: query all cards again; none ends the invocation.         *)
(***************************************************************************)
NoItemsUnchecked(items) == FALSE

\* line 201: "if not result_items"
NoItems(items) == items = <<>>

FinalQuery ==
    /\ pc = "final_query"
    /\ queried' = TRUE
    /\ \/ \E p \in Pages :
             /\ result_items' = p
             /\ IF NoItems(p)
                THEN /\ branch' = "no_items"
                     /\ pc' = "diag"
                     /\ UNCHANGED <<total_results, idx>>
                ELSE /\ total_results' = Len(p)
                     /\ idx' = 0
                     /\ pc' = "extract"
                     /\ UNCHANGED branch
             /\ UNCHANGED <<exc, session>>
       \/ /\ Raise(ExcTarget)
          /\ UNCHANGED <<result_items, total_results, idx>>
    /\ UNCHANGED <<inputs, attempts, paging, flight_data, output,
                   navHist, pageHist, waited, extracted, anomaly, noResultsSeen,
                   validations>>

(***************************************************************************)
(* Line 224: the card's index is inside the requested window.              *)
(***************************************************************************)
InWindow(i, s, e) == ~(i < s \/ i > e)

(***************************************************************************)
(* Line 228: a card without the leg list, or with an ad badge, is an       *)
(* advertisement.                                                          *)
(***************************************************************************)
IsAdBoth(card) == ~card.legList /\ card.adBadge

IsAd(card) == ~card.legList \/ card.adBadge

(***************************************************************************)
(* The text of an element as the words of inner_text().split(): an empty   *)
(* or blank text has no word.  str.isdigit and int on a word.              *)
(***************************************************************************)
isdigit(w) == w \in Digit

int(w) ==
    CASE w = "0" -> 0 [] w = "1" -> 1 [] w = "2" -> 2 [] w = "3" -> 3
      [] w = "4" -> 4 [] w = "5" -> 5 [] w = "6" -> 6 [] w = "7" -> 7
      [] w = "8" -> 8 [] w = "9" -> 9

\* the value of an expression, or the exception it raises
Value(v) == [exc |-> "", val |-> v]
Raises(e) == [exc |-> e, val |-> 0]

ExcType == "can only concatenate str (not NoneType) to str"

(***************************************************************************)
(* Line 255: availableSites.  elem is None when the label is not in the    *)
(* card, else the words of its text; the first word is taken before it is  *)
(* tested.                                                                 *)
(***************************************************************************)
AvailableSites(elem) ==
    IF ~IsSome(elem) THEN Value(0)
    ELSE IF Get(elem) = <<>> THEN Raises(ExcIndex)
    ELSE IF isdigit(Get(elem)[1]) THEN Value(int(Get(elem)[1]))
    ELSE Value(0)

(***************************************************************************)
(* utils.py line 76 and scrapper.py line 260: bookingLink.  anchor is None *)
(* when the card has no booking anchor, else its href attribute, which is  *)
(* None when the anchor has none.                                          *)
(***************************************************************************)
BASE_URL == "BASE_URL"

generate_booking_link(suffix_url) ==
    IF IsSome(suffix_url) THEN Value(<<BASE_URL, Get(suffix_url)>>)
    ELSE Raises(ExcType)

BookingLink(anchor) ==
    IF IsSome(anchor) THEN generate_booking_link(Get(anchor))
    ELSE Value(<<"https://www.ca.kayak.com">>)

(***************************************************************************)
(* utils.py lines 137-145: the number of stops of a leg.  elem is None     *)
(* when the leg has no stops text, else the words of the text.             *)
(***************************************************************************)
lower(w) == CASE w = "Direct" -> "direct" [] w = "DIRECT" -> "direct" [] OTHER -> w

Stops(elem) ==
    IF ~IsSome(elem) THEN Value(0)
    ELSE IF Get(elem) = <<>> THEN Raises(ExcIndex)
    ELSE IF isdigit(Get(elem)[1]) THEN Value(int(Get(elem)[1]))
    ELSE IF Len(Get(elem)) = 1 /\ lower(Get(elem)[1]) = "direct" THEN Value(0)
    ELSE Value(0)                        \* the text is not recognised

(***************************************************************************)
(* What the extraction reads in one card besides its legs' other fields.   *)
(***************************************************************************)
CardTexts ==
    [sites : {None, Some(<<>>), Some(<<"3", "sites">>),
              Some(<<"many", "sites">>)},
     anchor : {None, Some(None), Some(Some("/book/1"))},
     stops : {None, Some(<<>>), Some(<<"1", "stop">>), Some(<<"direct">>)}]

\* the first exception that building the card's record raises, "" if none:
\* the legs are parsed (lines 242-243) before the record is built
ExtractRaises(t) ==
    IF Stops(t.stops).exc # "" THEN Stops(t.stops).exc
    ELSE IF AvailableSites(t.sites).exc # "" THEN AvailableSites(t.sites).exc
    ELSE BookingLink(t.anchor).exc

\* a field of the card is missing, empty or malformed
Anomalous(t) ==
    \/ t.sites \in {None, Some(<<>>), Some(<<"many", "sites">>)}
    \/ t.anchor \in {None, Some(None)}
    \/ t.stops \in {None, Some(<<>>)}

(***************************************************************************)
(* Lines 222-268: one iteration of the extraction loop over the cards of   *)
(* the final query, in page order.  No statement of the loop body is in a  *)
(* try block of its own.                                                   *)
(***************************************************************************)
Extract ==
    /\ pc = "extract"
    /\ idx < Len(result_items)
    /\ extracted' = extracted + 1
    /\ IF ~InWindow(idx, start_index, end_index)
       THEN /\ idx' = idx + 1                       \* continue
            /\ UNCHANGED <<flight_data, ctrl, session, anomaly>>
       ELSE \/ /\ IsAd(result_items[idx + 1])       \* skip the advertisement
               /\ idx' = idx + 1
               /\ UNCHANGED <<flight_data, ctrl, session, anomaly>>
            \/ /\ ~IsAd(result_items[idx + 1])      \* build the flight
               /\ \E t \in CardTexts :
                     /\ anomaly' = (anomaly \/ Anomalous(t))
                     /\ IF ExtractRaises(t) = ""
                        THEN /\ flight_data' =
                                  Append(flight_data,
                                         [src |-> idx, card |-> result_items[idx + 1]])
                             /\ idx' = idx + 1
                             /\ UNCHANGED <<ctrl, session>>
                        ELSE /\ Raise(ExtractRaises(t))
                             /\ UNCHANGED <<idx, flight_data>>
            \/ /\ Raise(ExcTarget)                  \* a query of the card raises
               /\ UNCHANGED <<idx, flight_data, anomaly>>
    /\ UNCHANGED <<inputs, attempts, paging, result_items, total_results,
                   output, navHist, pageHist, queried, waited, noResultsSeen,
                   validations>>

\* the loop is over: line 270
ExtractDone ==
    /\ pc = "extract"
    /\ idx >= Len(result_items)
    /\ branch' = "success"
    /\ pc' = "close"
    /\ UNCHANGED <<inputs, exc, session, attempts, paging, extraction, output,
                   navHist, pageHist, seenHist>>

(***************************************************************************)
(* Lines 272-284: the success response.  The advisory message is set when  *)
(* the page had fewer cards than the window asks for.                      *)
(***************************************************************************)
AdvisoryUpTo(total, e) ==
    IF total <= e + 1 THEN MsgAdvisory(e, total) ELSE None

Advisory(total, e) ==
    IF total < e + 1 THEN MsgAdvisory(e, total) ELSE None

SuccessResponseFilteredCount(fd, total, msg) ==
    [status |-> "success", has_flights |-> TRUE, flights |-> fd,
     total_results |-> Len(fd), message |-> msg]

SuccessResponse(fd, total, msg) ==
    [status |-> "success", has_flights |-> TRUE, flights |-> fd,
     total_results |-> total, message |-> msg]

(***************************************************************************)
(* The response dict of each exit (lines 115-120, 131-136, 153-158,        *)
(* 207-212, 278-284).                                                      *)
(***************************************************************************)
BuildResponse(b) ==
    CASE b = "nav_failed" -> ErrorResponse(MsgFailedToLoad)
      [] b = "no_results" -> ErrorResponse(MsgNoResults)
      [] b = "no_container" -> ErrorResponse(MsgNoContainer(exc))
      [] b = "no_items" -> ErrorResponse(MsgNoItems)
      [] b = "success" -> SuccessResponse(flight_data, total_results,
                                          Advisory(total_results, end_index))

(***************************************************************************)
(* browser.close() of each exit (lines 114, 130, 152, 206, 270), then the  *)
(* response dict is built.                                                 *)
(***************************************************************************)
Close ==
    /\ pc = "close"
    /\ \/ /\ browser' = "closed"
          /\ response' = BuildResponse(branch)
          /\ pc' = "write"
          /\ UNCHANGED <<branch, exc, playwright>>
       \/ /\ Raise(ExcTarget)
          /\ UNCHANGED response
    /\ UNCHANGED <<inputs, attempts, paging, extraction, report, outcome,
                   raised, navHist, pageHist, seenHist>>

(***************************************************************************)
(* The artifact files of each exit (flights_data.json, flights_data.csv),  *)
(* then "return": leaving the with block.                                  *)
(***************************************************************************)
Write ==
    /\ pc = "write"
    /\ \/ /\ report' = response
          /\ outcome' = "returned"
          /\ pc' = "done"
          /\ browser' = WithExit(browser)
          /\ playwright' = ScopeExit(playwright)
          /\ UNCHANGED <<branch, exc>>
       \/ /\ Raise(ExcOS)
          /\ UNCHANGED <<report, outcome>>
    /\ UNCHANGED <<inputs, attempts, paging, extraction, response, raised,
                   navHist, pageHist, seenHist>>

(***************************************************************************)
(* Lines 309-320: the top-level handler builds the error response from     *)
(* the exception's text, writes the artifact files and returns.  The       *)
(* handler's own writes are not inside any try block.                      *)
(***************************************************************************)
HandlerReportingCount ==
    /\ pc = "handler"
    /\ response' = [ErrorResponse(MsgError(exc))
                        EXCEPT !.total_results = total_results]
    /\ pc' = "done"
    /\ \/ /\ report' = [ErrorResponse(MsgError(exc))
                          EXCEPT !.total_results = total_results]
          /\ outcome' = "returned"
          /\ UNCHANGED raised
       \/ /\ outcome' = "raised"
          /\ raised' = ExcOS
          /\ UNCHANGED report
    /\ UNCHANGED <<inputs, branch, exc, session, attempts, paging, extraction,
                   navHist, pageHist, seenHist>>

Handler ==
    /\ pc = "handler"
    /\ response' = ErrorResponse(MsgError(exc))
    /\ pc' = "done"
    /\ \/ /\ report' = ErrorResponse(MsgError(exc))
          /\ outcome' = "returned"
          /\ UNCHANGED raised
       \/ /\ outcome' = "raised"
          /\ raised' = ExcOS
          /\ UNCHANGED report
    /\ UNCHANGED <<inputs, branch, exc, session, attempts, paging, extraction,
                   navHist, pageHist, seenHist>>

Next ==
    \/ Validate
    \/ EnterPlaywright
    \/ Launch
    \/ Goto
    \/ NavSnapshot
    \/ NavFinal
    \/ CheckNoResults
    \/ WaitResults
    \/ Diag
    \/ LoopRead
    \/ Click
    \/ ClickSnapshot
    \/ FinalQuery
    \/ Extract
    \/ ExtractDone
    \/ Close
    \/ Write
    \/ Handler

Spec == Init /\ [][Next]_vars

(***************************************************************************)
(* The functions that scrape_flights and the tool are built from, called   *)
(* on their own: call holds the function's name and its argument, rets     *)
(* what each call of it on that argument returned or raised.  The          *)
(* variables of scrape_flights stay as they are before an invocation.      *)
(***************************************************************************)
\* number of calls made on one argument
MaxCalls == 2
\* longest list of children drawn as input
MaxChildren == 3

Standalone ==
    /\ req = ReqOneWay
    /\ start_index = 0
    /\ end_index = 0
    /\ Fresh

scrape == <<req, start_index, end_index, ctrl, session, attempts, paging,
            extraction, output, navHist, pageHist, seenHist>>

(***************************************************************************)
(* Python strings built by f-strings and str.join.                         *)
(***************************************************************************)
DigitStr(d) ==
    CASE d = 0 -> "0" [] d = 1 -> "1" [] d = 2 -> "2" [] d = 3 -> "3"
      [] d = 4 -> "4" [] d = 5 -> "5" [] d = 6 -> "6" [] d = 7 -> "7"
      [] d = 8 -> "8" [] d = 9 -> "9"

\* str(n) of an int
RECURSIVE str(_)
str(n) ==
    IF n < 0 THEN "-" \o str(-n)
    ELSE IF n < 10 THEN DigitStr(n)
    ELSE str(n \div 10) \o DigitStr(n % 10)

\* the string made of the characters cs
RECURSIVE Text(_)
Text(cs) == IF cs = <<>> THEN "" ELSE cs[1] \o Text(Tail(cs))

\* sep.join(parts)
RECURSIVE join(_, _)
join(sep, parts) ==
    IF parts = <<>> THEN ""
    ELSE IF Len(parts) = 1 THEN parts[1]
    ELSE parts[1] \o sep \o join(sep, Tail(parts))

\* code points of the characters that the enum values compared here hold
ord(c) == CASE c = "1" -> 49 [] c = "L" -> 76 [] c = "S" -> 83

\* a < b for strings: the first differing character decides, a proper
\* prefix is smaller
RECURSIVE StrLess(_, _)
StrLess(a, b) ==
    IF b = <<>> THEN FALSE
    ELSE IF a = <<>> THEN TRUE
    ELSE IF a[1] # b[1] THEN ord(a[1]) < ord(b[1])
    ELSE StrLess(Tail(a), Tail(b))

(***************************************************************************)
(* enums.py: the values of ChildType, and of the members used as inputs.   *)
(***************************************************************************)
CHILD == <<"1", "1">>
TODDLER_SEAT == <<"1", "S">>
INFANT_LAP == <<"1", "L">>
ChildType == {CHILD, TODDLER_SEAT, INFANT_LAP}
PlaneType == {"economy", "premium", "business", "first"}
SortOption == {"bestflight_a", "duration_a", "price_a", "price_b"}
Alliance == {"VALUE_ALLIANCE", "ONE_WORLD", "SKY_TEAM", "STAR_ALLIANCE"}

(***************************************************************************)
(* models.py lines 12-17: FlightPassengers.__post_init__; "" when the      *)
(* object is constructed.                                                  *)
(***************************************************************************)
PostInit(p) ==
    IF p.adults < 0 \/ p.students < 0
    THEN "Adults and students cannot be negative"
    ELSE IF p.adults = 0 /\ p.students = 0 /\ p.children = <<>>
    THEN "At least one passenger is required"
    ELSE ""

(***************************************************************************)
(* models.py lines 19-32: FlightPassengers.to_url_string.                  *)
(***************************************************************************)
\* lines 26-28: the keys of child_counts, in the order of their insertion
RECURSIVE Keys(_)
Keys(children) ==
    IF children = <<>> THEN <<>>
    ELSE LET init == SubSeq(children, 1, Len(children) - 1)
             last == children[Len(children)]
         IN  IF \E i \in DOMAIN init : init[i] = last
             THEN Keys(init)
             ELSE Append(Keys(init), last)

\* line 30: sorted(..., key=lambda x: x[0].value), a stable sort
RECURSIVE Insert(_, _)
Insert(x, s) ==
    IF s = <<>> THEN <<x>>
    ELSE IF StrLess(x, s[1]) THEN <<x>> \o s
    ELSE <<s[1]>> \o Insert(x, Tail(s))

sortedInsertionOrder(s) == s

RECURSIVE sorted(_)
sorted(s) ==
    IF s = <<>> THEN <<>>
    ELSE Insert(s[Len(s)], sorted(SubSeq(s, 1, Len(s) - 1)))

\* lines 28-29: one child type's part, with its count in child_counts
ChildPart(children, c) ==
    LET count == Cardinality({i \in DOMAIN children : children[i] = c})
    IN  IF count > 1 THEN str(count) \o Text(c) ELSE Text(c)

PassengersToUrl(p) ==
    LET adults == IF p.adults > 0 THEN <<str(p.adults) \o "adults">> ELSE <<>>
        students == IF p.students > 0
                    THEN <<str(p.students) \o "students">> ELSE <<>>
        order == sorted(Keys(p.children))
        child_str == join("-", [i \in DOMAIN order |->
                                   ChildPart(p.children, order[i])])
        children == IF p.children # <<>>
                    THEN <<"children-" \o child_str>> ELSE <<>>
    IN  join("-", adults \o students \o children)

(***************************************************************************)
(* models.py lines 52-82: FlightFilters.to_url_string.  incl and excl are  *)
(* the orders in which the two sets of airline codes are iterated: a set   *)
(* of strings has no order of its own (it follows the strings' hashes,     *)
(* which differ from one interpreter run to the next).                     *)
(***************************************************************************)
Orders(S) ==
    {s \in [1..Cardinality(S) -> S] :
        \A i, j \in 1..Cardinality(S) : i # j => s[i] # s[j]}

\* "if self.x is not None: parts.append(f'name={self.x}')"
IntPartTruthy(name, o) ==
    IF IsSome(o) /\ Get(o) # 0 THEN <<name \o str(Get(o))>> ELSE <<>>

IntPart(name, o) == IF IsSome(o) THEN <<name \o str(Get(o))>> ELSE <<>>

\* "if self.x: parts.append(f'name={','.join(self.x)}')"
CodesPart(name, order) ==
    IF order # <<>>
    THEN <<name \o join(",", [i \in DOMAIN order |-> Text(order[i])])>>
    ELSE <<>>

FiltersError(f) ==
    IF IsSome(f.carry_on_free) /\ Get(f.carry_on_free) < 0
    THEN "Carry-on bags cannot be negative"
    ELSE IF IsSome(f.checked_bags_free) /\ Get(f.checked_bags_free) < 0
    THEN "Checked bags cannot be negative"
    ELSE IF IsSome(f.stops) /\ Get(f.stops) < 0
    THEN "Stops cannot be negative"
    ELSE IF IsSome(f.max_price) /\ Get(f.max_price) <= 0
    THEN "Max price must be positive"
    ELSE IF \E c \in f.include_airlines : ~MatchAirline(c)
    THEN "Invalid airline codes in include_airlines"
    ELSE IF \E c \in f.exclude_airlines : ~MatchAirline(c)
    THEN "Invalid airline codes in exclude_airlines"
    ELSE ""

FiltersToUrl(f, incl, excl) ==
    IF FiltersError(f) # "" THEN Raises(FiltersError(f))
    ELSE Value(join(";",
             IntPart("cfc=", f.carry_on_free)
          \o IntPart("bfc=", f.checked_bags_free)
          \o IntPart("stops=", f.stops)
          \o IntPart("price=-", f.max_price)
          \o (IF IsSome(f.alliance)
              THEN <<"alliance=" \o Get(f.alliance)>> ELSE <<>>)
          \o CodesPart("airlines=", incl)
          \o CodesPart("airlines=-", excl)
          \o (IF f.wifi_only THEN <<"wifi=wifi">> ELSE <<>>)))

(***************************************************************************)
(* utils.py lines 8-65: generate_search_url.                               *)
(***************************************************************************)
BASE_SEARCH_URL == "BASE_SEARCH_URL"

\* lines 36-47
UrlError(r) ==
    IF ~MatchAirport(r.departure_airport)
    THEN "Invalid departure airport code"
    ELSE IF ~MatchAirport(r.arrival_airport)
    THEN "Invalid arrival airport code"
    ELSE IF ~MatchDate(r.departure_date)
    THEN "Invalid departure date format"
    ELSE IF IsSome(r.return_date) /\ Get(r.return_date) # <<>>
            /\ ~MatchDate(Get(r.return_date))
    THEN "Invalid return date format"
    ELSE ""

\* lines 50-54
PathParts(r) ==
       <<Text(r.departure_airport) \o "-" \o Text(r.arrival_airport),
         Text(r.departure_date)>>
    \o (IF IsSome(r.return_date) /\ Get(r.return_date) # <<>>
        THEN <<Text(Get(r.return_date))>> ELSE <<>>)
    \o <<PassengersToUrl(r.passengers), r.plane_type>>

\* lines 58-60, for filters whose to_url_string does not raise
QueryParts(r, incl, excl) ==
       <<"sort=" \o r.sort_option>>
    \o (IF IsSome(r.filters) /\ FiltersToUrl(Get(r.filters), incl, excl).val # ""
        THEN <<"fs=" \o FiltersToUrl(Get(r.filters), incl, excl).val>>
        ELSE <<>>)

\* the URL returned, with the parts it was joined from
GenerateSearchUrl(r, incl, excl) ==
    IF UrlError(r) # "" THEN Raises(UrlError(r))
    ELSE IF IsSome(r.filters) /\ FiltersError(Get(r.filters)) # ""
    THEN Raises(FiltersError(Get(r.filters)))
    ELSE Value([url |-> BASE_SEARCH_URL \o "/" \o join("/", PathParts(r))
                           \o "?" \o join("&", QueryParts(r, incl, excl)),
                path_parts |-> PathParts(r),
                query_parts |-> QueryParts(r, incl, excl)])

(***************************************************************************)
(* The arguments drawn as input.                                           *)
(***************************************************************************)
PassengerInputs ==
    {p \in [adults : 0..2, students : 0..1,
            children : UNION {[1..n -> ChildType] : n \in 0..MaxChildren}] :
        PostInit(p) = ""}

FilterInputs ==
    [carry_on_free : {None, Some(0), Some(1), Some(-1)},
     checked_bags_free : {None, Some(2)},
     stops : {None, Some(0)},
     max_price : {None, Some(6000)},
     alliance : {None, Some("STAR_ALLIANCE")},
     include_airlines : {{}, {AC}, {AC, UA}},
     exclude_airlines : {{}, {<<"a", "c">>}, {AC, UA}},
     wifi_only : BOOLEAN]

UrlInputs ==
         Requests
    \cup {[ReqRoundTrip EXCEPT !.filters = Some(f)] : f \in FilterInputs}
    \cup {[ReqOneWay EXCEPT !.passengers = p, !.plane_type = t,
                            !.sort_option = o] :
             p \in {q \in PassengerInputs : Len(q.children) <= 1},
             t \in PlaneType, o \in SortOption}

(***************************************************************************)
(* Calls of the URL builder and of the two to_url_string methods.          *)
(***************************************************************************)
InitUrl ==
    /\ Standalone
    /\ chat = NoChat
    /\ pool = NoPool
    /\ rets = <<>>
    /\ \/ \E p \in PassengerInputs :
             call = [fn |-> "FlightPassengers.to_url_string", arg |-> p]
       \/ \E f \in FilterInputs :
             call = [fn |-> "FlightFilters.to_url_string", arg |-> f]
       \/ \E r \in UrlInputs :
             call = [fn |-> "generate_search_url", arg |-> r]

CallPassengersToUrl ==
    /\ call.fn = "FlightPassengers.to_url_string"
    /\ Len(rets) < MaxCalls
    /\ rets' = Append(rets, Value(PassengersToUrl(call.arg)))
    /\ UNCHANGED <<call, apart, scrape>>

CallFiltersToUrl ==
    /\ call.fn = "FlightFilters.to_url_string"
    /\ Len(rets) < MaxCalls
    /\ \E incl \in Orders(call.arg.include_airlines),
          excl \in Orders(call.arg.exclude_airlines) :
          rets' = Append(rets, FiltersToUrl(call.arg, incl, excl))
    /\ UNCHANGED <<call, apart, scrape>>

CallGenerateSearchUrl ==
    /\ call.fn = "generate_search_url"
    /\ Len(rets) < MaxCalls
    /\ IF IsSome(call.arg.filters)
       THEN \E incl \in Orders(Get(call.arg.filters).include_airlines),
               excl \in Orders(Get(call.arg.filters).exclude_airlines) :
               rets' = Append(rets, GenerateSearchUrl(call.arg, incl, excl))
       ELSE rets' = Append(rets, GenerateSearchUrl(call.arg, <<>>, <<>>))
    /\ UNCHANGED <<call, apart, scrape>>

NextUrl ==
    \/ CallPassengersToUrl
    \/ CallFiltersToUrl
    \/ CallGenerateSearchUrl

SpecUrl == InitUrl /\ [][NextUrl]_vars

(***************************************************************************)
(* utils.py lines 78-204: parse_flight_leg.  The leg element is None when  *)
(* the card has no such list item; else it is what the function's          *)
(* selectors find in it:                                                   *)
(*   times      the texts of the ".VY2U .vmXl span" elements               *)
(*   efvi       None, or the ".jLhY-airport-info" elements of ".EFvI",     *)
(*              each the texts of its spans                                *)
(*   duration   None, or the text of ".xdW8 .vmXl"                         *)
(*   alts       the alt attributes of the carrier images (None: no alt)    *)
(*   stops      None, or the words of ".JWEO-stops-text"                   *)
(*   stop_elems the stop markers: code is None or the characters of the    *)
(*              inner span's text; hEI8 is None or the words of the        *)
(*              ".hEI8" text with the ".AFFP" name (None: no such span)    *)
(*   next_day   whether ".VY2U-adendum" is present                         *)
(***************************************************************************)
\* longest list of stop markers drawn as input
MaxStops == 2

NA == "N/A"
NoAirport == [code |-> NA, name |-> NA]

\* lines 93-103: the leg returned when ".EFvI" is missing
EarlyLeg(departure_time, arrival_time) ==
    [departureTime |-> departure_time, departureAirport |-> NoAirport,
     arrivalTime |-> arrival_time, arrivalAirport |-> NoAirport,
     duration |-> NA, airlines |-> <<Some(NA)>>, stops |-> 0,
     stopDetails |-> <<>>, nextDayArrival |-> FALSE]

EmptyDictAsSentinelLeg == EarlyLeg(NA, NA)

\* line 82: "return {}", a dict without any key
EmptyDict == <<>>

\* lines 113-123: code and name of one airport-info element
Airport(spans) ==
    [code |-> IF Len(spans) > 0 THEN spans[1] ELSE NA,
     name |-> IF Len(spans) > 1 THEN spans[2] ELSE NA]

\* s[:n]
Take(s, n) == SubSeq(s, 1, IF Len(s) < n THEN Len(s) ELSE n)

\* line 176: re.search(r"(\d+h \d+m) layover", stop_text), on the words of
\* the text: group(1) of the first match, None when there is none
LayoverAt(words, i) ==
    /\ i + 2 <= Len(words)
    /\ words[i] \in {"1h", "2h", "12h"}          \* \d+h
    /\ words[i + 1] \in {"5m", "30m", "45m"}     \* \d+m
    /\ words[i + 2] = "layover"

Layover(words) ==
    IF \E i \in DOMAIN words : LayoverAt(words, i)
    THEN LET i == CHOOSE k \in DOMAIN words :
                     /\ LayoverAt(words, k)
                     /\ \A j \in 1..(k - 1) : ~LayoverAt(words, j)
         IN  words[i] \o " " \o words[i + 1]
    ELSE NA

StopDetailWithoutSelfCheck(e, dep, arr) ==
    IF ~IsSome(e.code) THEN <<>>
    ELSE IF ~MatchAirport(Take(Get(e.code), 3)) THEN <<>>
    ELSE IF ~IsSome(e.hEI8) THEN <<>>
    ELSE <<[airportCode |-> Text(Take(Get(e.code), 3)),
            airportName |-> IF IsSome(Get(e.hEI8).name)
                            THEN Get(Get(e.hEI8).name) ELSE NA,
            layoverDuration |-> Layover(Get(e.hEI8).words)]>>

\* lines 152-182: the stop detail of one marker, <<>> when it is skipped
StopDetail(e, dep, arr) ==
    IF ~IsSome(e.code) THEN <<>>
    ELSE IF ~MatchAirport(Take(Get(e.code), 3)) THEN <<>>
    ELSE IF Text(Take(Get(e.code), 3)) \in {dep.code, arr.code} THEN <<>>
    ELSE IF ~IsSome(e.hEI8) THEN <<>>
    ELSE <<[airportCode |-> Text(Take(Get(e.code), 3)),
            airportName |-> IF IsSome(Get(e.hEI8).name)
                            THEN Get(Get(e.hEI8).name) ELSE NA,
            layoverDuration |-> Layover(Get(e.hEI8).words)]>>

\* lines 151-182: the loop over the markers
RECURSIVE StopDetails(_, _, _)
StopDetails(elems, dep, arr) ==
    IF elems = <<>> THEN <<>>
    ELSE StopDetail(elems[1], dep, arr) \o StopDetails(Tail(elems), dep, arr)

DedupeKeepingLast(details) ==
    LET keep == {i \in DOMAIN details :
                    \A j \in (i + 1)..Len(details) :
                        details[j].airportCode # details[i].airportCode}
    IN  [k \in 1..Cardinality(keep) |->
            details[CHOOSE i \in keep :
                        Cardinality({j \in keep : j < i}) = k - 1]]

\* lines 184-185: keep the first detail of each airport code
RECURSIVE Dedupe(_)
Dedupe(details) ==
    IF details = <<>> THEN <<>>
    ELSE LET init == SubSeq(details, 1, Len(details) - 1)
             last == details[Len(details)]
         IN  IF \E i \in DOMAIN init : init[i].airportCode = last.airportCode
             THEN Dedupe(init)
             ELSE Append(Dedupe(init), last)

ParseFlightLeg(elem) ==
    IF ~IsSome(elem) THEN Value(EmptyDict)
    ELSE
    LET leg == Get(elem)
        departure_time == IF Len(leg.times) > 0 THEN leg.times[1] ELSE NA
        arrival_time == IF Len(leg.times) > 2 THEN leg.times[3] ELSE NA
        infos == Get(leg.efvi)
        departure_airport == IF Len(infos) # 2 THEN NoAirport
                             ELSE Airport(infos[1])
        arrival_airport == IF Len(infos) # 2 THEN NoAirport
                           ELSE Airport(infos[2])
        stops == Stops(leg.stops)
    IN  IF ~IsSome(leg.efvi)
        THEN Value(EarlyLeg(departure_time, arrival_time))
        ELSE IF stops.exc # "" THEN Raises(stops.exc)
        ELSE Value(
          [departureTime |-> departure_time,
           departureAirport |-> departure_airport,
           arrivalTime |-> arrival_time,
           arrivalAirport |-> arrival_airport,
           duration |-> IF IsSome(leg.duration) THEN Get(leg.duration) ELSE NA,
           airlines |-> IF leg.alts # <<>> THEN leg.alts ELSE <<Some(NA)>>,
           stops |-> stops.val,
           stopDetails |->
               IF stops.val > 0
               THEN Dedupe(StopDetails(leg.stop_elems, departure_airport,
                                       arrival_airport))
               ELSE <<>>,
           nextDayArrival |-> leg.next_day])

(***************************************************************************)
(* The leg elements drawn as input.                                        *)
(***************************************************************************)
StopElems ==
    { [code |-> None, hEI8 |-> None],
      [code |-> Some(<<"Y","V","R">>), hEI8 |-> None],
      [code |-> Some(<<"Y","V","R">>),
       hEI8 |-> Some([words |-> <<"2h", "30m", "layover", "Vancouver">>,
                      name |-> Some("Vancouver")])],
      [code |-> Some(<<"Y","V","R"," ","x">>),
       hEI8 |-> Some([words |-> <<"long", "layover">>, name |-> None])],
      [code |-> Some(<<"N","R","T">>),
       hEI8 |-> Some([words |-> <<"12h", "5m", "layover", "Tokyo">>,
                      name |-> Some("Tokyo")])],
      [code |-> Some(<<"y","v","r">>),
       hEI8 |-> Some([words |-> <<"1h", "45m", "layover">>, name |-> None])],
      [code |-> Some(YYZ),
       hEI8 |-> Some([words |-> <<"1h", "45m", "layover">>,
                      name |-> Some("Toronto")])] }

LegElems ==
    [times : {<<>>, <<"8:00 am", "-", "11:30 pm">>},
     efvi : {None, Some(<<>>),
             Some(<<<<"YYZ", "Toronto">>, <<"HKG", "Hong Kong">>>>),
             Some(<<<<"YYZ">>, <<>>>>)},
     duration : {None, Some("15h 30m")},
     alts : {<<>>, <<None>>, <<Some("Air Canada"), Some("United")>>},
     stops : {None, Some(<<>>), Some(<<"1", "stop">>), Some(<<"direct">>),
              Some(<<"2", "stops">>), Some(<<"nonstop">>)},
     stop_elems : UNION {[1..n -> StopElems] : n \in 0..MaxStops},
     next_day : BOOLEAN]

\* an element in which none of the selectors finds anything
EmptyLegElem ==
    [times |-> <<>>, efvi |-> None, duration |-> None, alts |-> <<>>,
     stops |-> None, stop_elems |-> <<>>, next_day |-> FALSE]

(***************************************************************************)
(* Calls of parse_flight_leg.                                              *)
(***************************************************************************)
InitLeg ==
    /\ Standalone
    /\ chat = NoChat
    /\ pool = NoPool
    /\ rets = <<>>
    /\ \E e \in {None} \cup {Some(l) : l \in LegElems} :
          call = [fn |-> "parse_flight_leg", arg |-> e]

CallParseFlightLeg ==
    /\ call.fn = "parse_flight_leg"
    /\ Len(rets) < MaxCalls
    /\ rets' = Append(rets, ParseFlightLeg(call.arg))
    /\ UNCHANGED <<call, apart, scrape>>

NextLeg == CallParseFlightLeg

SpecLeg == InitLeg /\ [][NextLeg]_vars

(***************************************************************************)
(* main.py lines 17-258: scrape_flights_tool.  It is called with its       *)
(* keyword arguments a, in the year current_year; env is how the call of   *)
(* scrape_flights ends (it raises, or returns a report) and the orders in  *)
(* which the airline sets are iterated.                                    *)
(***************************************************************************)
\* longest list of flights in a report drawn as input
MaxFlights == 2

\* int() of a string of decimal digits
RECURSIVE Num(_)
Num(cs) ==
    IF cs = <<>> THEN 0
    ELSE 10 * Num(SubSeq(cs, 1, Len(cs) - 1)) + int(cs[Len(cs)])

DaysIn(y, m) ==
    IF m = 2
    THEN (IF (y % 4 = 0 /\ y % 100 # 0) \/ y % 400 = 0 THEN 29 ELSE 28)
    ELSE IF m \in {4, 6, 9, 11} THEN 30 ELSE 31

\* datetime.strptime(s, "%Y-%m-%d") raises ValueError, for a string s that
\* the date pattern matched
StrptimeFails(s) ==
    \/ Len(s) # 10
    \/ Num(SubSeq(s, 1, 4)) < 1
    \/ Num(SubSeq(s, 6, 7)) \notin 1..12
    \/ Num(SubSeq(s, 9, 10)) \notin 1..DaysIn(Num(SubSeq(s, 1, 4)),
                                               Num(SubSeq(s, 6, 7)))

\* the characters of f"{current_year}", a year of four digits
YearChars(y) ==
    <<DigitStr(y \div 1000), DigitStr((y \div 100) % 10),
      DigitStr((y \div 10) % 10), DigitStr(y % 10)>>

\* lines 80-81 and 92-93: a date of a past year is moved to this year
Adjust(s, current_year) ==
    IF Num(SubSeq(s, 1, 4)) < current_year
    THEN YearChars(current_year) \o <<"-">> \o SubSeq(s, 6, 10)
    ELSE s

\* the return date after lines 87-96
Truthy(o) == IsSome(o) /\ Get(o) # <<>>

ReturnDate(a, current_year) ==
    IF Truthy(a.return_date)
    THEN Some(Adjust(Get(a.return_date), current_year))
    ELSE a.return_date

\* lines 76-139: the message returned by the first check that fails, "" if
\* none does
ToolRejects(a, current_year) ==
    IF ~MatchDate(a.departure_date)
    THEN "Invalid departure date format: Must be YYYY-MM-DD."
    ELSE IF StrptimeFails(a.departure_date)
    THEN "Invalid departure date: Unable to parse date."
    ELSE IF Truthy(a.return_date) /\ ~MatchDate(Get(a.return_date))
    THEN "Invalid return date format: Must be YYYY-MM-DD."
    ELSE IF Truthy(a.return_date) /\ StrptimeFails(Get(a.return_date))
    THEN "Invalid return date: Unable to parse date."
    ELSE IF ~MatchAirport(a.departure_airport)
    THEN "Invalid departure airport code: Must be a 3-letter IATA code."
    ELSE IF ~MatchAirport(a.arrival_airport)
    THEN "Invalid arrival airport code: Must be a 3-letter IATA code."
    ELSE IF ~MatchDate(Adjust(a.departure_date, current_year))
    THEN "Invalid departure date format: Must be YYYY-MM-DD."
    ELSE IF Truthy(a.return_date)
            /\ ~MatchDate(Get(ReturnDate(a, current_year)))
    THEN "Invalid return date format: Must be YYYY-MM-DD."
    ELSE IF a.adults < 0 \/ a.students < 0
    THEN "Adults and students cannot be negative."
    ELSE IF a.adults = 0 /\ a.students = 0 /\ a.children = <<>>
    THEN "At least one passenger is required."
    ELSE IF \E i \in DOMAIN a.children : a.children[i] \notin ChildType
    THEN "Invalid child type. Must be '11', '1S', or '1L'."
    ELSE IF a.plane_type \notin PlaneType
    THEN "Invalid plane_type."
    ELSE IF a.sort_option \notin SortOption
    THEN "Invalid sort_option."
    ELSE IF IsSome(a.alliance) /\ Get(a.alliance) \notin Alliance
    THEN "Invalid alliance."
    ELSE IF \E c \in a.include_airlines : ~MatchAirline(c)
    THEN "Invalid include_airlines: All codes must be 2-character IATA codes."
    ELSE IF \E c \in a.exclude_airlines : ~MatchAirline(c)
    THEN "Invalid exclude_airlines: All codes must be 2-character IATA codes."
    ELSE IF IsSome(a.carry_on_free) /\ Get(a.carry_on_free) < 0
    THEN "carry_on_free cannot be negative."
    ELSE IF IsSome(a.checked_bags_free) /\ Get(a.checked_bags_free) < 0
    THEN "checked_bags_free cannot be negative."
    ELSE IF IsSome(a.stops) /\ Get(a.stops) < 0
    THEN "stops cannot be negative."
    ELSE IF IsSome(a.max_price) /\ Get(a.max_price) <= 0
    THEN "max_price must be positive."
    ELSE IF a.start_index < 0
    THEN "start_index must be a non-negative integer."
    ELSE IF a.end_index < a.start_index
    THEN "end_index must be an integer greater than or equal to start_index."
    ELSE ""

\* lines 142-176: the arguments scrape_flights is called with
ToolRequest(a, current_year) ==
    [departure_airport |-> a.departure_airport,
     arrival_airport |-> a.arrival_airport,
     departure_date |-> Adjust(a.departure_date, current_year),
     return_date |-> ReturnDate(a, current_year),
     passengers |-> [adults |-> a.adults, students |-> a.students,
                     children |-> a.children],
     plane_type |-> a.plane_type,
     sort_option |-> a.sort_option,
     filters |-> Some([carry_on_free |-> a.carry_on_free,
                       checked_bags_free |-> a.checked_bags_free,
                       stops |-> a.stops,
                       max_price |-> a.max_price,
                       alliance |-> a.alliance,
                       include_airlines |-> a.include_airlines,
                       exclude_airlines |-> a.exclude_airlines,
                       wifi_only |-> a.wifi_only])]

\* f"{message}" of a report's message
MessageText(m) ==
    IF m = None THEN "None"
    ELSE IF Len(m) = 3
    THEN "Requested up to index " \o str(m[2]) \o ", but only "
             \o str(m[3]) \o " results available."
    ELSE join("", m)

\* line 187
NoFlightsFound(message, total) ==
    "No flights found: " \o message \o "\nTotal results: " \o str(total)

NoValidFlightsAsNoFlights(total) ==
    NoFlightsFound("No valid flights found in the requested range.", total)

\* line 252
NoValidFlights(total) ==
    "No valid flights found in the requested range.\nTotal results: "
        \o str(total)

ExcJoin == "sequence item 0: expected str instance, NoneType found"

\* ', '.join(leg['airlines']): every item has to be a str
JoinAirlines(airlines) ==
    IF \E i \in DOMAIN airlines : airlines[i] = None THEN Raises(ExcJoin)
    ELSE Value(join(", ", [i \in DOMAIN airlines |-> Get(airlines[i])]))

\* lines 212, 214 / 230, 232: the lines of a leg before its airlines
LegHead(leg) ==
    <<"  Departure: " \o leg.departureTime \o " from "
          \o leg.departureAirport.code \o " (" \o leg.departureAirport.name
          \o ")",
      "  Arrival: " \o leg.arrivalTime \o " at "
          \o leg.arrivalAirport.code \o " (" \o leg.arrivalAirport.name \o ")",
      "  Duration: " \o leg.duration>>

\* lines 220-224 / 238-242: the lines of a leg's stop details
StopLines(leg) ==
    IF leg.stops > 0 /\ leg.stopDetails # <<>>
    THEN [i \in DOMAIN leg.stopDetails |->
             "    Stop " \o str(i) \o ": " \o leg.stopDetails[i].airportCode
                 \o " (" \o leg.stopDetails[i].airportName \o "), Layover: "
                 \o leg.stopDetails[i].layoverDuration]
    ELSE <<>>

\* the lines of one leg, or the exception that building them raises
LegLines(title, leg) ==
    LET airlines == JoinAirlines(leg.airlines)
    IN  IF airlines.exc # "" THEN Raises(airlines.exc)
        ELSE Value(<<title>> \o LegHead(leg)
                   \o <<"  Airlines: " \o airlines.val,
                        "  Stops: " \o str(leg.stops)>>
                   \o StopLines(leg))

\* line 227: the return leg is shown
ShowsReturn(return_date, leg) ==
    /\ Truthy(return_date)
    /\ leg # EmptyDict
    /\ leg.departureTime # "N/A"
    /\ leg.arrivalTime # "N/A"

\* lines 205-249: the text of one flight, or the exception raised
FlightText(flight, return_date) ==
    LET details == flight.flightDetails
        head == <<"Flight:",
                  "Price: " \o details.price,
                  "Fare Types: " \o (IF join(", ", details.fareTypes) # ""
                                     THEN join(", ", details.fareTypes)
                                     ELSE "N/A"),
                  "Available Booking Sites: " \o str(details.availableSites),
                  "Baggage: " \o str(details.baggage.carryOn) \o " carry-on, "
                      \o str(details.baggage.checkedBags) \o " checked">>
        outbound == LegLines("Outbound:", flight.outboundFlight)
        return_flight == LegLines("Return:", flight.returnFlight)
    IN  IF outbound.exc # "" THEN Raises(outbound.exc)
        ELSE IF ~ShowsReturn(return_date, flight.returnFlight)
        THEN Value(join("\n", head \o outbound.val
                          \o <<"Booking Link: " \o details.bookingLink>>))
        ELSE IF return_flight.exc # "" THEN Raises(return_flight.exc)
        ELSE Value(join("\n", head \o outbound.val \o return_flight.val
                          \o <<"Booking Link: " \o details.bookingLink>>))

\* line 200: the flight is skipped
Skipped(flight) == flight.outboundFlight = EmptyDict

\* lines 194-249: the loop over the flights: the texts, or the first
\* exception
RECURSIVE FormatFlights(_, _)
FormatFlights(flights, return_date) ==
    IF flights = <<>> THEN Value(<<>>)
    ELSE
    LET flight_str == FlightText(flights[1], return_date)
        rest == FormatFlights(Tail(flights), return_date)
    IN  IF Skipped(flights[1]) THEN rest
        ELSE IF flight_str.exc # "" THEN Raises(flight_str.exc)
        ELSE IF rest.exc # "" THEN rest
        ELSE Value(<<flight_str.val>> \o rest.val)

\* lines 251-258
OutputText(texts, message, total) ==
    IF texts = <<>> THEN NoValidFlights(total)
    ELSE join("\n---\n", texts)
         \o (IF message # None THEN "\nNote: " \o MessageText(message) ELSE "")
         \o "\nTotal results available: " \o str(total)

\* lines 183-258: the text made of the report scrape_flights returned
FormatReport(result, return_date) ==
    IF result.status = "no_flights_found"
    THEN Value(NoFlightsFound(MessageText(result.message),
                              result.total_results))
    ELSE
    LET texts == FormatFlights(result.flights, return_date)
    IN  IF texts.exc # "" THEN texts
        ELSE Value(OutputText(texts.val, result.message,
                              result.total_results))

\* what a call of the tool comes to: the text returned or the exception
\* raised, and the URL that scrape_flights was to load (None: not called)
ToolResult(r, u) == [exc |-> r.exc, val |-> r.val, url |-> u]

ScrapeFlightsTool(a, current_year, env) ==
    IF ToolRejects(a, current_year) # ""
    THEN ToolResult(Value(ToolRejects(a, current_year)), None)
    ELSE
    LET request == ToolRequest(a, current_year)
        built == GenerateSearchUrl(request, env.incl, env.excl)
        return_date == ReturnDate(a, current_year)
    IN  IF built.exc # ""
        THEN ToolResult(Value("Error fetching flight data: " \o built.exc),
                        None)
        ELSE IF env.result.exc # ""
        THEN ToolResult(Value("Error fetching flight data: "
                                  \o env.result.exc), Some(built.val))
        ELSE ToolResult(FormatReport(env.result.val, return_date),
                        Some(built.val))

(***************************************************************************)
(* The calls drawn as input.                                               *)
(***************************************************************************)
DefaultArgsNoCarryOn ==
    [departure_airport |-> YYZ, arrival_airport |-> HKG,
     departure_date |-> Date0701, return_date |-> Some(Date0725),
     adults |-> 2, students |-> 0, children |-> <<>>,
     plane_type |-> "economy", sort_option |-> "price_a",
     carry_on_free |-> None, checked_bags_free |-> None, stops |-> None,
     max_price |-> Some(6000), alliance |-> None, include_airlines |-> {},
     exclude_airlines |-> {}, wifi_only |-> FALSE,
     start_index |-> 0, end_index |-> 15]

\* the tool called with the airports and dates of the example and its
\* defaults for everything else (lines 21-36)
DefaultArgs ==
    [departure_airport |-> YYZ, arrival_airport |-> HKG,
     departure_date |-> Date0701, return_date |-> Some(Date0725),
     adults |-> 2, students |-> 0, children |-> <<>>,
     plane_type |-> "economy", sort_option |-> "price_a",
     carry_on_free |-> Some(1), checked_bags_free |-> None, stops |-> None,
     max_price |-> Some(6000), alliance |-> None, include_airlines |-> {},
     exclude_airlines |-> {}, wifi_only |-> FALSE,
     start_index |-> 0, end_index |-> 15]

ToolArgs ==
    { DefaultArgs,
      [DefaultArgs EXCEPT !.carry_on_free = None],
      [DefaultArgs EXCEPT !.return_date = None],
      [DefaultArgs EXCEPT !.return_date = Some(<<>>)],
      [DefaultArgs EXCEPT !.start_index = 1, !.end_index = 1],
      [DefaultArgs EXCEPT !.children = <<INFANT_LAP, CHILD>>],
      [DefaultArgs EXCEPT !.include_airlines = {AC, UA}],
      [DefaultArgs EXCEPT !.departure_date =
          <<"2","0","2","4","-","0","2","-","2","9">>],
      [DefaultArgs EXCEPT !.departure_date =
          <<"2","0","2","5","-","0","2","-","3","0">>],
      [DefaultArgs EXCEPT
          !.departure_date = <<"2","0","2","4","-","1","2","-","2","0">>,
          !.return_date = Some(<<"2","0","2","5","-","0","1","-","0","5">>)],
      [DefaultArgs EXCEPT !.departure_date = Date0701 \o <<"\n">>],
      [DefaultArgs EXCEPT !.departure_date = <<"J","u","l","y">>],
      [DefaultArgs EXCEPT !.return_date = Some(<<"J","u","l","y">>)],
      [DefaultArgs EXCEPT !.return_date =
          Some(<<"2","0","2","5","-","0","2","-","3","0">>)],
      [DefaultArgs EXCEPT !.departure_airport = <<"y","y","z">>],
      [DefaultArgs EXCEPT !.arrival_airport = <<"H","K">>],
      [DefaultArgs EXCEPT !.adults = -1],
      [DefaultArgs EXCEPT !.adults = 0],
      [DefaultArgs EXCEPT !.children = <<<<"1","2">>>>],
      [DefaultArgs EXCEPT !.plane_type = "coach"],
      [DefaultArgs EXCEPT !.sort_option = "cheapest"],
      [DefaultArgs EXCEPT !.alliance = Some("STAR")],
      [DefaultArgs EXCEPT !.include_airlines = {<<"a","c">>}],
      [DefaultArgs EXCEPT !.exclude_airlines = {<<"A","C","A">>}],
      [DefaultArgs EXCEPT !.carry_on_free = Some(-1)],
      [DefaultArgs EXCEPT !.checked_bags_free = Some(-1)],
      [DefaultArgs EXCEPT !.stops = Some(-1)],
      [DefaultArgs EXCEPT !.max_price = Some(0)],
      [DefaultArgs EXCEPT !.start_index = -1],
      [DefaultArgs EXCEPT !.end_index = -1] }

\* flights as lines 245-266 of scrapper.py build them
SampleDetails ==
    [price |-> "C$ 1,234", fareTypes |-> <<"Economy Basic", "Economy">>,
     availableSites |-> AvailableSites(Some(<<"3", "sites">>)).val,
     baggage |-> [carryOn |-> 1, checkedBags |-> 0],
     bookingLink |-> join("", BookingLink(Some(Some("/book/1"))).val)]

SampleLeg ==
    [times |-> <<"8:00 am", "-", "11:30 pm">>,
     efvi |-> Some(<<<<"YYZ", "Toronto">>, <<"HKG", "Hong Kong">>>>),
     duration |-> Some("15h 30m"),
     alts |-> <<Some("Air Canada"), Some("United")>>,
     stops |-> Some(<<"1", "stop">>),
     stop_elems |-> <<[code |-> Some(<<"Y","V","R">>),
                       hEI8 |-> Some([words |-> <<"2h", "30m", "layover">>,
                                      name |-> Some("Vancouver")])]>>,
     next_day |-> TRUE]

Flights ==
    [flightDetails : {SampleDetails},
     outboundFlight :
        {ParseFlightLeg(e).val :
            e \in {None, Some(SampleLeg),
                   Some([SampleLeg EXCEPT !.alts = <<None>>])}},
     returnFlight : {ParseFlightLeg(e).val : e \in {None, Some(SampleLeg)}}]

\* how scrape_flights may end for the window s..e: a raised fault, a
\* no_flights_found report, a success report
ScrapeResults(s, e) ==
         {Raises(ExcOS)}
    \cup {Value(ErrorResponse(m)) :
            m \in {MsgFailedToLoad, MsgNoResults, MsgNoItems,
                   MsgNoContainer(ExcTimeout), MsgError(ExcIndex)}}
    \cup {Value(SuccessResponse(fd, total, Advisory(total, e))) :
            fd \in UNION {[1..n -> Flights] : n \in 0..MaxFlights},
            total \in 1..(MaxFlights + 1)}

\* the results that fit the call: the tool does not call scrape_flights
\* when it rejects its arguments, and a success report has no more flights
\* than the window holds cards
NotCalled == Raises("scrape_flights is not called")

ToolResults(a, current_year) ==
    IF ToolRejects(a, current_year) # "" THEN {NotCalled}
    ELSE {q \in ScrapeResults(a.start_index, a.end_index) :
             (q.exc = "" /\ q.val.status = "success")
                => Len(q.val.flights)
                     <= Cardinality({i \in 0..(q.val.total_results - 1) :
                                       InWindow(i, a.start_index, a.end_index)})}

(***************************************************************************)
(* Calls of scrape_flights_tool.                                           *)
(***************************************************************************)
InitTool ==
    /\ Standalone
    /\ chat = NoChat
    /\ pool = NoPool
    /\ rets = <<>>
    /\ \E a \in ToolArgs, y \in {2025, 2026} :
          \E r \in ToolResults(a, y) :
             call = [fn |-> "scrape_flights_tool", arg |-> a,
                     current_year |-> y, result |-> r]

CallScrapeFlightsTool ==
    /\ call.fn = "scrape_flights_tool"
    /\ Len(rets) < MaxCalls
    /\ \E i \in Orders({c \in call.arg.include_airlines : MatchAirline(c)}),
          x \in Orders({c \in call.arg.exclude_airlines : MatchAirline(c)}) :
          rets' = Append(rets,
                         ScrapeFlightsTool(call.arg, call.current_year,
                                           [result |-> call.result,
                                            incl |-> i, excl |-> x]))
    /\ UNCHANGED <<call, apart, scrape>>

NextTool == CallScrapeFlightsTool

SpecTool == InitTool /\ [][NextTool]_vars

(***************************************************************************)
(* GeminiChatClient.process_query (gemini_client.py 212-293): one user     *)
(* query.  The model call (send_message_async) returns a response with a   *)
(* function call, with text, or without candidates, or it raises; a        *)
(* ResourceExhausted or ServiceUnavailable starts the next attempt.        *)
(***************************************************************************)
\* largest max_tool_iterations a client is built with
MaxIterations == 2
max_retries == 3

InitGemini ==
    /\ Standalone
    /\ call = NoCall
    /\ rets = <<>>
    /\ pool = NoPool
    /\ \E m \in 0..MaxIterations :
          chat = [NoChat EXCEPT !.pc = "send", !.max_tool_iterations = m]

\* lines 234 and 273: the query, or a function response, is sent to the
\* model; line 235 follows the first only
SendMessage ==
    /\ chat.pc \in {"send", "respond"}
    /\ \/ \E r \in {"function_call", "text", "no_candidates"} :
             chat' = [chat EXCEPT !.response = r, !.pc = "loop",
                                  !.iteration = IF chat.pc = "send" THEN 0
                                                ELSE @]
       \/ chat' = [chat EXCEPT !.pc = "backoff"]   \* lines 281, 285
       \/ chat' = [chat EXCEPT !.pc = "done", !.result = "error"]  \* line 289
    /\ UNCHANGED <<call, rets, pool, scrape>>

\* lines 237-246 and 274-279: the loop's test, the search for a function
\* call in the response, and the answer when there is none
ToolLoop ==
    /\ chat.pc = "loop"
    /\ IF chat.iteration < chat.max_tool_iterations
       THEN CASE chat.response = "no_candidates" ->   \* candidates[0]
                   chat' = [chat EXCEPT !.iteration = @ + 1, !.pc = "done",
                                        !.result = "error"]
              [] chat.response = "function_call" ->
                   chat' = [chat EXCEPT !.iteration = @ + 1, !.pc = "tool"]
              [] chat.response = "text" ->
                   \E r \in {"answer", "error"} :   \* the reply may not be sent
                      chat' = [chat EXCEPT !.iteration = @ + 1, !.pc = "done",
                                           !.result = r]
       ELSE chat' = [chat EXCEPT !.pc = "done", !.result = "exceeded"]
    /\ UNCHANGED <<call, rets, pool, scrape>>

\* lines 247-272: the step notification, then the tool call; either may
\* raise, which ends the query at line 289
CallTool ==
    /\ chat.pc = "tool"
    /\ \/ chat' = [chat EXCEPT !.pc = "done", !.result = "error"]
       \/ chat' = [chat EXCEPT !.tool_calls = @ + 1, !.pc = "respond"]
       \/ chat' = [chat EXCEPT !.tool_calls = @ + 1, !.pc = "done",
                               !.result = "error"]
    /\ UNCHANGED <<call, rets, pool, scrape>>

\* lines 281-288, 232 and 293: sleep, then the next attempt if one is left
Backoff ==
    /\ chat.pc = "backoff"
    /\ chat' = IF chat.attempt + 1 < max_retries
               THEN [chat EXCEPT !.attempt = @ + 1, !.pc = "send"]
               ELSE [chat EXCEPT !.attempt = @ + 1, !.pc = "done",
                                 !.result = "failed"]
    /\ UNCHANGED <<call, rets, pool, scrape>>

NextGemini ==
    \/ SendMessage
    \/ ToolLoop
    \/ CallTool
    \/ Backoff

SpecGemini == InitGemini /\ [][NextGemini]_vars

(***************************************************************************)
(* Two invocations of scrape_flights at the same time, each on a worker    *)
(* thread of the default executor (main.py 163-178).  pool.pc is the       *)
(* position of each, pool.wrote the resources each has written: its        *)
(* browser session, which sync_playwright and launch create anew for every *)
(* invocation, and the files it opened with mode "w", whose names are      *)
(* fixed and relative to the one working directory of the process.         *)
(* pool.files is the invocation that last wrote each file.                 *)
(***************************************************************************)
InitPool ==
    /\ Standalone
    /\ call = NoCall
    /\ rets = <<>>
    /\ chat = NoChat
    /\ pool = [pc |-> <<"start", "start">>, wrote |-> <<{}, {}>>,
               files |-> [f \in {"no_results_screenshot.png",
                                 "no_results_page.html", "flights_data.json",
                                 "flights_data.csv"} |-> 0]]

\* scrapper.py 80-90: the invocation's own driver, browser, context, page
PoolLaunch(w) ==
    /\ pool.pc[w] = "start"
    /\ pool' = [pool EXCEPT
                  !.pc[w] = "browsing",
                  !.wrote[w] = @ \cup {[kind |-> "session", id |-> w]}]
    /\ UNCHANGED <<call, rets, chat, scrape>>

\* scrapper.py 149-151 and 203-205: the snapshot of an exit without cards,
\* a screenshot and then the page source; the other exits take none
PoolSnapshot(w) ==
    /\ pool.pc[w] \in {"browsing", "screenshot"}
    /\ \/ /\ pool.pc[w] = "browsing"
          /\ pool' = [pool EXCEPT
                        !.pc[w] = "screenshot",
                        !.wrote[w] = @ \cup {[kind |-> "file",
                                              id |-> "no_results_screenshot.png"]},
                        !.files["no_results_screenshot.png"] = w]
       \/ /\ pool.pc[w] = "screenshot"
          /\ pool' = [pool EXCEPT
                        !.pc[w] = "json",
                        !.wrote[w] = @ \cup {[kind |-> "file",
                                              id |-> "no_results_page.html"]},
                        !.files["no_results_page.html"] = w]
       \/ /\ pool.pc[w] = "browsing"
          /\ pool' = [pool EXCEPT !.pc[w] = "json"]
    /\ UNCHANGED <<call, rets, chat, scrape>>

\* scrapper.py 121-122, 137-138, 159-160, 213-214, 285-286, 317-318
PoolWriteJson(w) ==
    /\ pool.pc[w] = "json"
    /\ pool' = [pool EXCEPT
                  !.pc[w] = "csv",
                  !.wrote[w] = @ \cup {[kind |-> "file",
                                        id |-> "flights_data.json"]},
                  !.files["flights_data.json"] = w]
    /\ UNCHANGED <<call, rets, chat, scrape>>

\* scrapper.py 123, 139, 161, 215, 303-304, 319, then the return
PoolWriteCsv(w) ==
    /\ pool.pc[w] = "csv"
    /\ pool' = [pool EXCEPT
                  !.pc[w] = "done",
                  !.wrote[w] = @ \cup {[kind |-> "file",
                                        id |-> "flights_data.csv"]},
                  !.files["flights_data.csv"] = w]
    /\ UNCHANGED <<call, rets, chat, scrape>>

NextPool ==
    \/ \E w \in {1, 2} : PoolLaunch(w)
    \/ \E w \in {1, 2} : PoolSnapshot(w)
    \/ \E w \in {1, 2} : PoolWriteJson(w)
    \/ \E w \in {1, 2} : PoolWriteCsv(w)

SpecPool == InitPool /\ [][NextPool]_vars

(***************************************************************************)
(* Properties of scrape_flights.                                           *)
(***************************************************************************)
\* the input passes the index checks and the URL builder
Accepted == IndexError(start_index, end_index) = "" /\ ~BuilderRejects(req)

Returned == pc = "done" /\ outcome = "returned"
Success == Returned /\ report.status = "success"

\* C1: scrape_flights never propagates a raw fault: whatever is raised at
\* any state of the scrape (navigation, no-results check, result wait,
\* pagination, extraction, artifact writing), the call ends by returning a
\* report whose status is "success" or "no_flights_found", the latter with
\* the exception's text in its message.
C1_NeverPropagatesRawFault ==
    (pc = "done" /\ Accepted) =>
        /\ outcome = "returned"
        /\ report.status \in {"success", "no_flights_found"}
        /\ (report.status = "no_flights_found" /\ exc # "") =>
              /\ Len(report.message) = 2
              /\ report.message[2] = exc

\* C2: an invocation that opened a browser session has closed it by the
\* time the call ends, on every exit: the success return, each early
\* no_flights_found return, and the top-level handler.
C2_SessionClosedOnEveryExit ==
    pc \in {"handler", "done"} =>
        /\ browser # "open"
        /\ playwright # "started"

\* C2 witness: a fault sent the call through the top-level handler after the
\* browser had been opened, and the session is closed.
C2_Witness ==
    /\ Returned
    /\ browser = "closed"
    /\ Len(report.message) = 2
    /\ report.message[1] = "Error occurred: "

\* C3: a click after which the card count did not increase ends the
\* pagination loop, so a page whose count never grows gets one click.
C3_StaleClickEndsLoop ==
    /\ staleClicks <= 1
    /\ staleClicks = 1 => pc \notin {"loop_read", "click", "click_snapshot"}

C3_Witness == staleClicks = 1 /\ clicks = 2 /\ pc = "final_query"

\* C4: "show more" is triggered only when the count read is below
\* end_index + 1 and the control exists; the loop is left as soon as the
\* count reaches end_index + 1 or the control is missing.
C4_ShowMoreOnlyWhenNeeded ==
    /\ pc = "click" => current_results < target_results /\ show_more_button
    /\ pc = "loop_read" => current_results < target_results

C4_Witness == pc = "click" /\ clicks = 1 /\ current_results = 1

\* C5: navigation is attempted at most 3 times; a failed attempt captures a
\* snapshot and is followed by the next attempt; the first success ends the
\* retries; after 3 failures the call returns the failed-to-load report
\* without querying the page for results.
C5_NavigationRetries ==
    /\ navGotos <= max_attempts
    /\ navOk => pc \notin {"goto", "nav_snapshot", "nav_final"}
    /\ (pc = "done" /\ navGotos >= 1 /\ ~navOk) =>
          /\ navGotos = max_attempts
          /\ snapshots = max_attempts
          /\ outcome = "returned"
          /\ report = ErrorResponse(MsgFailedToLoad)
          /\ ~queried

\* C6: invalid input (end_index < start_index, start_index < 0, or a request
\* the URL builder rejects) is rejected before any browser or network
\* activity, and the rejection is not retried.
C6_InvalidInputRejectedEarly ==
    (end_index < start_index \/ start_index < 0 \/ req \in MalformedRequests) =>
        /\ pc \in {"validate", "done"}
        /\ playwright = "none"
        /\ browser = "none"
        /\ navGotos = 0
        /\ ~queried
        /\ validations <= 1
        /\ pc = "done" => outcome = "raised"

C6_Witness ==
    /\ pc = "done"
    /\ outcome = "raised"
    /\ req \in MalformedRequests
    /\ 0 <= start_index
    /\ start_index <= end_index

\* page indices of the cards of the final query that lie in the window and
\* are no advertisement (leg list present, no ad badge)
WindowFlights ==
    {i \in 0..(Len(result_items) - 1) :
        /\ start_index <= i
        /\ i <= end_index
        /\ result_items[i + 1].legList
        /\ ~result_items[i + 1].adBadge}

\* C7: the flights of a success report are exactly the cards in
\* [start_index, end_index] that are no advertisement, in page order; so
\* there are at most end_index - start_index + 1 and at most total_results.
C7_FlightsAreWindowNonAds ==
    Success =>
        /\ Len(report.flights) = Cardinality(WindowFlights)
        /\ \A k \in 1..Len(report.flights) :
              /\ report.flights[k].src \in WindowFlights
              /\ report.flights[k].card = result_items[report.flights[k].src + 1]
              /\ k > 1 => report.flights[k - 1].src < report.flights[k].src
        /\ Len(report.flights) <= end_index - start_index + 1
        /\ Len(report.flights) <= report.total_results

\* C7 witness: a success report that kept a flight and skipped an
\* advertisement inside the window.
C7_Witness ==
    /\ Success
    /\ Len(report.flights) = 1
    /\ \E i \in 0..(Len(result_items) - 1) :
          /\ start_index <= i
          /\ i <= end_index
          /\ ~result_items[i + 1].legList

\* C8: total_results of a success report is the number of cards of the
\* final query, advertisements and cards outside the window included.
C8_TotalIsMaterializedCount ==
    Success => report.total_results = Len(result_items)

C8_Witness ==
    /\ Success
    /\ report.total_results = 2
    /\ Len(report.flights) = 0

\* C9: a success report has an advisory message exactly when
\* total_results < end_index + 1.
C9_AdvisoryIffWindowShort ==
    Success => (Len(report.message) # 0 <=> report.total_results < end_index + 1)

C9_Witness ==
    /\ Success
    /\ report.total_results = 1
    /\ end_index = 1
    /\ Len(report.message) # 0

\* C10: when the page shows the "no results" indicator, the call ends at
\* once with a report no_flights_found, total_results 0 and no flights,
\* without waiting for cards, paginating or extracting.
C10_NoResultsEndsImmediately ==
    (noResultsSeen /\ pc = "done") =>
        /\ outcome = "returned"
        /\ report.status = "no_flights_found"
        /\ report.total_results = 0
        /\ ~report.has_flights
        /\ ~waited
        /\ clicks = 0
        /\ extracted = 0

(***************************************************************************)
(* C11: when the final query finds no card, the report is                  *)
(* no_flights_found with a total of 0; every success report was built from *)
(* at least one card, so its total_results is at least 1.                  *)
(***************************************************************************)
C11_EmptyPageIsNoFlights ==
    /\ Success => (report.total_results >= 1 /\ result_items # <<>>)
    /\ (Returned /\ result_items = <<>>)
          => (report.status = "no_flights_found" /\ report.total_results = 0)

\* the final query found no card and the invocation returned its report
C11_Witness ==
    /\ Returned
    /\ branch = "no_items"
    /\ result_items = <<>>
    /\ report.message = MsgNoItems

(***************************************************************************)
(* C12: a missing, empty or malformed field of a card that is not an       *)
(* advertisement is never fatal: the step of the extraction loop that      *)
(* first meets such a field still builds the card's flight, and the loop   *)
(* goes on with the next card.                                             *)
(***************************************************************************)
C12_AnomalyNeverFatal ==
    [][(~anomaly /\ anomaly')
          => (/\ pc' = "extract"
              /\ idx' = idx + 1
              /\ Len(flight_data') = Len(flight_data) + 1)]_vars

C14_UrlBuilderDeterministic ==
    call.fn = "generate_search_url" =>
        \A i, j \in DOMAIN rets : rets[i] = rets[j]

(***************************************************************************)
(* C15: the filter segment is one token for exactly the fields that are    *)
(* set, in the order cfc, bfc, stops, price, alliance, included airlines,  *)
(* excluded airlines, wifi, joined by ";"; the URL has an "fs=" parameter  *)
(* exactly when the segment is not empty.                                  *)
(***************************************************************************)
C15_Slots(f, incl, excl) ==
    <<IF f.carry_on_free = None THEN "" ELSE "cfc=" \o str(f.carry_on_free[1]),
      IF f.checked_bags_free = None THEN ""
      ELSE "bfc=" \o str(f.checked_bags_free[1]),
      IF f.stops = None THEN "" ELSE "stops=" \o str(f.stops[1]),
      IF f.max_price = None THEN "" ELSE "price=-" \o str(f.max_price[1]),
      IF f.alliance = None THEN "" ELSE "alliance=" \o f.alliance[1],
      IF incl = <<>> THEN ""
      ELSE "airlines=" \o join(",", [i \in DOMAIN incl |-> Text(incl[i])]),
      IF excl = <<>> THEN ""
      ELSE "airlines=-" \o join(",", [i \in DOMAIN excl |-> Text(excl[i])]),
      IF f.wifi_only THEN "wifi=wifi" ELSE "">>

C15_IsSet(t) == t # ""

C15_Segments(f) ==
    {join(";", SelectSeq(C15_Slots(f, incl, excl), C15_IsSet)) :
        incl \in Orders(f.include_airlines), excl \in Orders(f.exclude_airlines)}

C15_FilterSegment ==
    /\ call.fn = "FlightFilters.to_url_string" =>
          \A i \in DOMAIN rets :
              rets[i].exc = "" => rets[i].val \in C15_Segments(call.arg)
    /\ call.fn = "generate_search_url" =>
          \A i \in DOMAIN rets :
              rets[i].exc = "" =>
                  LET q == rets[i].val.query_parts
                      f == call.arg.filters
                  IN  /\ q[1] = "sort=" \o call.arg.sort_option
                      /\ IF f = None \/ C15_Segments(f[1]) = {""}
                         THEN Len(q) = 1
                         ELSE /\ Len(q) = 2
                              /\ \E seg \in C15_Segments(f[1]) :
                                    q[2] = "fs=" \o seg

\* a segment with a field set to 0, a skipped field, both kinds of token
C15_Witness ==
    /\ call.fn = "FlightFilters.to_url_string"
    /\ call.arg.carry_on_free = Some(0)
    /\ call.arg.checked_bags_free = None
    /\ rets # <<>>
    /\ rets[1] =
          Value("cfc=0;price=-6000;alliance=STAR_ALLIANCE;airlines=AC;wifi=wifi")

(***************************************************************************)
(* C16: the passenger segment does not depend on the order of the children *)
(* list: the child codes come sorted ("11" < "1L" < "1S"), a code that     *)
(* occurs n > 1 times is prefixed by n; adults=2 with children             *)
(* [INFANT_LAP, CHILD] gives "2adults-children-11-1L".                     *)
(***************************************************************************)
C16_Code(children, c) ==
    LET n == Cardinality({i \in DOMAIN children : children[i] = c})
    IN  IF n = 0 THEN "" ELSE IF n = 1 THEN Text(c) ELSE str(n) \o Text(c)

C16_Expected(p) ==
    LET codes == SelectSeq(<<C16_Code(p.children, CHILD),
                             C16_Code(p.children, INFANT_LAP),
                             C16_Code(p.children, TODDLER_SEAT)>>, C15_IsSet)
    IN  join("-", SelectSeq(
            <<IF p.adults > 0 THEN str(p.adults) \o "adults" ELSE "",
              IF p.students > 0 THEN str(p.students) \o "students" ELSE "",
              IF codes = <<>> THEN "" ELSE "children-" \o join("-", codes)>>,
            C15_IsSet))

C16_Reorderings(children) ==
    {q \in [DOMAIN children -> ChildType] :
        \A c \in ChildType :
            Cardinality({i \in DOMAIN q : q[i] = c})
              = Cardinality({i \in DOMAIN children : children[i] = c})}

C16_PassengerSegment ==
    call.fn = "FlightPassengers.to_url_string" =>
        \A i \in DOMAIN rets :
            /\ rets[i].val = C16_Expected(call.arg)
            /\ \A q \in C16_Reorderings(call.arg.children) :
                  PassengersToUrl([call.arg EXCEPT !.children = q]) = rets[i].val
            /\ (call.arg.adults = 2 /\ call.arg.students = 0
                   /\ call.arg.children = <<INFANT_LAP, CHILD>>)
                  => rets[i].val = "2adults-children-11-1L"

\* the children are given out of order, one type twice
C16_Witness ==
    /\ call.fn = "FlightPassengers.to_url_string"
    /\ call.arg.children = <<TODDLER_SEAT, CHILD, TODDLER_SEAT>>
    /\ call.arg.adults = 1
    /\ rets # <<>>
    /\ rets[1].val = "1adults-children-11-21S"

(***************************************************************************)
(* C13, as claimed: parse_flight_leg does not raise on a missing or an     *)
(* empty subtree, and returns a leg in which every field has its sentinel  *)
(* value.                                                                  *)
(***************************************************************************)
C13_SentinelLegOnMissingOrEmpty ==
    (call.fn = "parse_flight_leg" /\ call.arg \in {None, Some(EmptyLegElem)})
        => \A i \in DOMAIN rets :
              /\ rets[i].exc = ""
              /\ DOMAIN rets[i].val = DOMAIN EarlyLeg(NA, NA)
              /\ rets[i].val = EarlyLeg(NA, NA)

(***************************************************************************)
(* C13, as the code has it: parse_flight_leg does not raise on a missing   *)
(* or an empty subtree.  For an element in which nothing is found it       *)
(* returns a leg with every field at its sentinel; for a missing element   *)
(* it returns an empty record, without any field.                          *)
(***************************************************************************)
C13_EmptyRecordOnMissing ==
    call.fn = "parse_flight_leg" =>
        \A i \in DOMAIN rets :
            /\ call.arg = None =>
                  (rets[i].exc = "" /\ DOMAIN rets[i].val = {})
            /\ call.arg = Some(EmptyLegElem) =>
                  /\ rets[i].exc = ""
                  /\ DOMAIN rets[i].val = DOMAIN EarlyLeg(NA, NA)
                  /\ rets[i].val.departureTime = "N/A"
                  /\ rets[i].val.arrivalTime = "N/A"
                  /\ rets[i].val.departureAirport = [code |-> "N/A", name |-> "N/A"]
                  /\ rets[i].val.arrivalAirport = [code |-> "N/A", name |-> "N/A"]
                  /\ rets[i].val.duration = "N/A"
                  /\ rets[i].val.airlines = <<Some("N/A")>>
                  /\ rets[i].val.stops = 0
                  /\ rets[i].val.stopDetails = <<>>
                  /\ rets[i].val.nextDayArrival = FALSE

\* parse_flight_leg was called without an element and returned
C13_Witness ==
    /\ call.fn = "parse_flight_leg"
    /\ call.arg = None
    /\ rets # <<>>
    /\ rets[1].exc = ""
    /\ DOMAIN rets[1].val = {}

(***************************************************************************)
(* C17, as claimed: for the request YYZ to HKG, 2025-07-01 to 2025-07-25,  *)
(* adults=2, economy, cheapest first, max_price=6000, window 0..15, the    *)
(* URL loaded has a path that begins                                       *)
(* "YYZ-HKG/2025-07-01/2025-07-25/2adults/economy" and a query that begins *)
(* "sort=price_a&fs=price=-6000".                                          *)
(***************************************************************************)
\* what may follow the price token in a filter segment
C17_Tails ==
    {""} \cup
    {";" \o seg :
        seg \in UNION {C15_Segments(f) :
                         f \in {g \in FilterInputs :
                                   /\ g.carry_on_free = None
                                   /\ g.checked_bags_free = None
                                   /\ g.stops = None
                                   /\ g.max_price = None}} \ {""}}

C18_ToolNeverRaises ==
    call.fn = "scrape_flights_tool" =>
        \A i \in DOMAIN rets : rets[i].exc = ""

(***************************************************************************)
(* C19, as claimed: when the scrape fails, or the window yields no flight  *)
(* (none in the report, or none left by the formatter), the tool returns   *)
(* the literal "No flights found: <message>\nTotal results: <n>".          *)
(***************************************************************************)
C19_ScrapeFailed ==
    /\ call.result # NotCalled
    /\ \/ call.result.exc # ""
       \/ call.result.val.status = "no_flights_found"

C19_NoFlightInWindow ==
    /\ call.result.exc = ""
    /\ call.result.val.status = "success"
    /\ \A k \in DOMAIN call.result.val.flights :
          call.result.val.flights[k].outboundFlight = <<>>

C19_Messages ==
    {MessageText(m) :
        m \in {None, MsgFailedToLoad, MsgNoResults, MsgNoItems,
               MsgNoContainer(ExcTimeout), MsgError(ExcIndex),
               MsgError(ExcOS)}
              \cup {MsgAdvisory(e, t) : e \in {1, 15}, t \in 0..(MaxFlights + 1)}}
    \cup {ExcOS, "No valid flights found in the requested range.", ""}

C22_StopsDeduplicated ==
    call.fn = "parse_flight_leg" =>
        \A i \in DOMAIN rets :
            (rets[i].exc = "" /\ "stopDetails" \in DOMAIN rets[i].val) =>
                LET leg == rets[i].val
                    sd == leg.stopDetails
                    raw == StopDetails(Get(call.arg).stop_elems,
                                       leg.departureAirport,
                                       leg.arrivalAirport)
                IN  /\ \A j, k \in DOMAIN sd :
                          j # k => sd[j].airportCode # sd[k].airportCode
                    /\ leg.stops > 0 =>
                          /\ {sd[j].airportCode : j \in DOMAIN sd}
                                = {raw[j].airportCode : j \in DOMAIN raw}
                          /\ \A j \in DOMAIN raw :
                                (\A k \in 1..(j - 1) :
                                    raw[k].airportCode # raw[j].airportCode)
                                    => \E k \in DOMAIN sd : sd[k] = raw[j]

\* two markers reported one airport code with different layovers, and the
\* leg returned has the one entry of the first marker
C22_Witness ==
    /\ call.fn = "parse_flight_leg"
    /\ rets # <<>>
    /\ rets[1].exc = ""
    /\ "stopDetails" \in DOMAIN rets[1].val
    /\ rets[1].val.stops > 0
    /\ LET raw == StopDetails(Get(call.arg).stop_elems,
                              rets[1].val.departureAirport,
                              rets[1].val.arrivalAirport)
       IN  /\ Len(raw) = 2
           /\ raw[1].airportCode = raw[2].airportCode
           /\ raw[1] # raw[2]
           /\ rets[1].val.stopDetails = <<raw[1]>>

(***************************************************************************)
(* C23: in every leg returned by parse_flight_leg no stopDetails entry has *)
(* the airport code of the leg's own departure or arrival airport.         *)
(***************************************************************************)
C23_NoSelfStops ==
    call.fn = "parse_flight_leg" =>
        \A i \in DOMAIN rets :
            (rets[i].exc = "" /\ "stopDetails" \in DOMAIN rets[i].val) =>
                \A j \in DOMAIN rets[i].val.stopDetails :
                    rets[i].val.stopDetails[j].airportCode
                        \notin {rets[i].val.departureAirport.code,
                                rets[i].val.arrivalAirport.code}

\* a complete marker reported the leg's own departure airport and the leg
\* returned, with stops declared, has no entry for it
C23_Witness ==
    /\ call.fn = "parse_flight_leg"
    /\ rets # <<>>
    /\ rets[1].exc = ""
    /\ "stopDetails" \in DOMAIN rets[1].val
    /\ rets[1].val.stops > 0
    /\ rets[1].val.departureAirport.code = "YYZ"
    /\ \E j \in DOMAIN Get(call.arg).stop_elems :
          /\ Get(call.arg).stop_elems[j].code = Some(YYZ)
          /\ IsSome(Get(call.arg).stop_elems[j].hEI8)
    /\ \A j \in DOMAIN rets[1].val.stopDetails :
          rets[1].val.stopDetails[j].airportCode # "YYZ"

(***************************************************************************)
(* C24: in every leg returned by parse_flight_leg the number of            *)
(* stopDetails entries does not exceed the declared stop count, and        *)
(* stopDetails is empty when stops = 0.                                    *)
(***************************************************************************)
C24_DetailsWithinStops ==
    call.fn = "parse_flight_leg" =>
        \A i \in DOMAIN rets :
            (rets[i].exc = "" /\ "stopDetails" \in DOMAIN rets[i].val) =>
                /\ Len(rets[i].val.stopDetails) <= rets[i].val.stops
                /\ rets[i].val.stops = 0 => rets[i].val.stopDetails = <<>>

(***************************************************************************)
(* C28: when the airport container of a present leg subtree is missing     *)
(* (and the stop text can be read), the leg returned is the one returned   *)
(* for the same subtree with an airport container that holds no airport    *)
(* block: the two airports are the "N/A" pair, and duration, airlines,     *)
(* stop count, stop details and the next-day flag are read from the        *)
(* subtree.                                                                *)
(***************************************************************************)
C28_FieldsIndependent ==
    (/\ call.fn = "parse_flight_leg"
     /\ IsSome(call.arg)
     /\ ~IsSome(Get(call.arg).efvi)
     /\ Stops(Get(call.arg).stops).exc = "")
        => \A i \in DOMAIN rets :
              /\ rets[i].exc = ""
              /\ rets[i].val.departureAirport = [code |-> "N/A", name |-> "N/A"]
              /\ rets[i].val.arrivalAirport = [code |-> "N/A", name |-> "N/A"]
              /\ rets[i]
                    = ParseFlightLeg(
                        Some([Get(call.arg) EXCEPT !.efvi = Some(<<>>)]))

(***************************************************************************)
(* C25: every report returned by scrape_flights has status "success" or    *)
(* "no_flights_found"; it has a flights list only when its status is       *)
(* "success"; a "no_flights_found" report has total_results = 0 and a      *)
(* message that is not empty, also when the fault came after the cards     *)
(* were counted.                                                           *)
(***************************************************************************)
C25_ReportShape ==
    outcome = "returned" =>
        /\ report.status \in {"success", "no_flights_found"}
        /\ report.has_flights <=> report.status = "success"
        /\ report.status # "success" => report.flights = <<>>
        /\ report.status = "no_flights_found" =>
              /\ report.total_results = 0
              /\ report.message # None
              /\ report.message[1] # ""

\* a fault after the cards were counted: the report returned is
\* "no_flights_found" with total_results = 0
C25_Witness ==
    /\ outcome = "returned"
    /\ report.status = "no_flights_found"
    /\ total_results > 0
    /\ report.total_results = 0
    /\ report.message = MsgError(exc)

(***************************************************************************)
(* C26: whatever card counts the page reports, also counts that drop       *)
(* between two reads, "show more" is triggered at most end_index + 1       *)
(* times during an invocation.                                             *)
(***************************************************************************)
C26_ClicksBounded == clicks <= end_index + 1

(***************************************************************************)
(* C27: a failure while the snapshot of a failed navigation attempt is     *)
(* captured does not cut the retries short: from the except block of a     *)
(* failed attempt k < 3, the next attempt is made.                         *)
(***************************************************************************)
C27_SnapshotFailureKeepsRetrying ==
    [][(pc = "nav_snapshot" /\ attempts + 1 < max_attempts)
           => pc' = "goto"]_vars

(***************************************************************************)
(* C29: the year adjustment of the dates keeps the order of the trip:      *)
(* when scrape_flights_tool calls scrape_flights and the return_date it    *)
(* was given is not earlier than the departure_date it was given, the      *)
(* return_date it passes is not earlier than the departure_date it passes. *)
(***************************************************************************)
C29_AdjustmentKeepsOrder ==
    (/\ call.fn = "scrape_flights_tool"
     /\ rets # <<>>
     /\ ToolRejects(call.arg, call.current_year) = ""
     /\ Truthy(call.arg.return_date))
        => LET Day(s) == 10000 * Num(SubSeq(s, 1, 4))
                           + 100 * Num(SubSeq(s, 6, 7))
                           + Num(SubSeq(s, 9, 10))
               passed == ToolRequest(call.arg, call.current_year)
           IN  Day(Get(call.arg.return_date)) >= Day(call.arg.departure_date)
                  => Day(Get(passed.return_date)) >= Day(passed.departure_date)

(***************************************************************************)
(* C30: process_query makes at most max_tool_iterations tool calls for one *)
(* user query, also when a model call fails with a rate-limit or           *)
(* service-unavailable error and the query is sent again.                  *)
(***************************************************************************)
C30_ToolCallsBounded == chat.tool_calls <= chat.max_tool_iterations

(***************************************************************************)
(* C21: when two invocations of scrape_flights run at the same time,       *)
(* neither writes a browser session, a page or a file that the other       *)
(* reads or writes: what one has written, the other has not.               *)
(***************************************************************************)
C21_NothingSharedMutably == pool.wrote[1] \cap pool.wrote[2] = {}

====
